---- MODULE Spec2Model ----
(***************************************************************************)
(* Ghost Text capture subsystem of locallm-agent.                          *)
(*                                                                         *)
(*   Spec         KeyboardHook (hook thread, debounce thread, Start/Stop)  *)
(*                driven by the native entry points StartMonitoring,       *)
(*                StopMonitoring and Shutdown.  Time is a discrete clock.  *)
(*   SpecKeys     the running monitor fed with key events of every virtual   *)
(*                key code, injected or not.                               *)
(*   SpecExtract  the context extractor applied to every configuration of   *)
(*                the focused element within the bounds.                    *)
(*   SpecCoord    the JavaScript coordinator onGhostTextCallback fed by    *)
(*                the native OnTypingPaused hand-off queue.                *)
(*   SpecOverlay  OverlayWindow: UpdateText/Show/Hide against the renderer *)
(*                thread's message loop.                                   *)
(***************************************************************************)
EXTENDS Integers, Sequences, FiniteSets

(* ------------------------------- bounds -------------------------------- *)

\* Last instant of the discrete clock.
MaxTime == 7

\* m_debounceMs, in clock ticks (DEBOUNCE_MS is 300 ms; one tick is 100 ms).
DebounceMs == 3

\* Number of typing-paused firings handed to the coordinator in SpecCoord.
MaxEvents == 3

\* Number of updateOverlay/hideOverlay calls made in SpecOverlay.
MaxCalls == 3

\* Longest document, value and name, and largest contextLength passed to
\* getTextContext.
MaxLen == 2

\* Tasks in a plan of the chairman, tool calls requested by one response,
\* and queries processed one after the other.
MaxTasks == 2
MaxToolCalls == 2
MaxQueries == 2

\* executeWithToolLoop(messages, tools, taskIndex, maxIterations = 5)
maxIterations == 5

\* Method calls made on a GhostTextService.
MaxSvcCalls == 5

\* KeyboardHook objects that may exist at the same time.
MaxInstances == 3

\* common.h
DEFAULT_CONTEXT_LENGTH == 100

(* ------------------------------ constants ------------------------------ *)

\* Number of 10 ms readiness polls in KeyboardHook::Start.
StartPolls == 50

(* ------------------------------ variables ------------------------------ *)

VARIABLES
    now,              \* steady_clock, in ticks
    m_running,        \* std::atomic<bool> KeyboardHook::m_running
    m_shouldStop,     \* std::atomic<bool> KeyboardHook::m_shouldStop
    m_debounceActive, \* std::atomic<bool> KeyboardHook::m_debounceActive ("armed")
    m_lastKeyTime,    \* KeyboardHook::m_lastKeyTime
    m_hook,           \* TRUE iff the WH_KEYBOARD_LL hook is installed
    m_hookThreadId,   \* 0, or the id of the hook thread
    hookQuit,         \* WM_QUIT is pending in the hook thread's message queue
    hookPc,           \* position of the hook thread
    dbPc,             \* position of the debounce thread
    ctxValid,         \* ctx.valid of the last firing: "none", "valid", "invalid"
    dbMutex,          \* owner of m_debounceMutex: "free" or "db"
    dbNotified,       \* a notify reached the debounce thread while it waits
    dbDeadline,       \* local `deadline` of DebounceThreadProc
    callerPc,         \* position of the calling (JavaScript main) thread
    callerOp,         \* native entry point the calling thread is inside
    pollCount,        \* loop counter i of KeyboardHook::Start
    crashed,          \* std::terminate was called
    g_initialized,    \* main.cpp g_initialized
    g_keyboardHook,   \* TRUE iff g_keyboardHook holds a KeyboardHook
    g_tsfn,           \* TRUE iff g_tsfn holds a ThreadSafeFunction
    tsfnQueued,       \* calls queued on the ThreadSafeFunction by the hook side
    g_overlayWindow,  \* TRUE iff g_overlayWindow holds an OverlayWindow
    ovlThread,        \* position of the renderer thread, as Shutdown sees it
    ovlQuit,          \* WM_QUIT is pending in the renderer thread's queue
    g_systemMonitor,  \* TRUE iff g_systemMonitor holds an initialized monitor
    lastResult,       \* outcome of the last finished native call
    prevCall,         \* outcome of the native call finished before it
    firesSinceKey,    \* history: firings decided since the last qualifying key
    keySeen,          \* history: a qualifying key arrived since monitoring began
    fireKeyTime,      \* history: m_lastKeyTime read by the last firing decision
    staleWake,        \* history: since the timer was armed, the thread woke at a
                      \* superseded deadline
    \* -- SpecKeys
    keyPending,       \* the key event LowLevelKeyboardProc is delivering
    \* -- SpecExtract
    uia,              \* what UI Automation and Win32 report for the focused element
    textContext,      \* the TextContext of the last GetCurrentContext call
    ctxLen,           \* the contextLength of that call
    probe,            \* what the caller of GetCurrentContext did with the result
    \* -- SpecCoord
    coord,            \* which coordinator receives the events: "main" is
                      \* main.js onGhostTextCallback, "integration" is
                      \* GhostTextIntegration.onTypingPaused
    c_armed,          \* m_debounceActive, without the clock
    c_native,         \* the debounce thread: "idle", or "firing" in OnTypingPaused
    nextId,           \* number of firings handed to g_tsfn so far
    tsfnQ,            \* calls queued on g_tsfn, each with its event id and context
    req,              \* per event: where its completion request stands
    aborted,          \* per event: signal.aborted of its AbortController
    ctl,              \* ghostTextAbortController / this.abortController: 0 is
                      \* null, otherwise the event that created it
    pending,          \* ghostTextRequestPending / this.completionInProgress
    received,         \* history: newest event the coordinator has received
    ovlCall,          \* history: the last updateOverlay/hideOverlay call made
    caretOf,          \* width of data.caret of each event handed to the callback
    ovlAt,            \* the x, y of the last updateOverlay call of the coordinator
    \* -- SpecOverlay
    m_text,           \* OverlayWindow::m_text
    msgQ,             \* messages posted to the renderer thread, oldest first
    rPc,              \* position of the renderer thread
    rText,            \* local `text` of OverlayWindow::Render
    m_visible,        \* OverlayWindow::m_visible
    shown,            \* the window is shown on screen
    painted,          \* text of the last paint, "none" before the first
    jsPc,             \* position of the JavaScript thread inside UpdateOverlay
    lastCall,         \* history: the call issued last
    callCount,        \* history: number of calls that have returned
    writes,           \* history: the texts given to updateOverlay, in order
    copyWrites,       \* history: Len(writes) when Render took its copy
    paintedEarly,     \* history: a paint happened before two calls had returned
    lastMsg,          \* history: the last posted message WindowProc handled
    m_renderTarget,   \* the render target and its brushes exist
    canCreate,        \* the device lets CreateHwndRenderTarget succeed
    deviceLost,       \* history: EndDraw reported a lost device
    hideWrites,       \* history: Len(writes) when Render last called Hide()
    winOp,            \* the flags of the last ShowWindow or SetWindowPos call
    focusTaken,       \* history: a call activated the overlay window
    callerTouched,    \* history: resources used outside the renderer thread
    s_instance,       \* KeyboardHook::s_instance: 0 (nullptr) or an object
    instances,        \* the KeyboardHook objects that exist
    hooked,           \* the objects whose hook is installed (running)
    keyed,            \* the objects whose OnKeyPress ran since they last fired
    misrouted,        \* history: a running object's key event did not reach it
    svc_initialized,  \* GhostTextService._initialized
    svc_monitoring,   \* GhostTextService._monitoring
    addonLoaded,      \* the require of ghost_text.node succeeded
    nativeInit,       \* the addon is initialized
    listeners,        \* listeners installed by native startMonitoring calls
    svcOp,            \* the last method called on the service
    svcResult,        \* its outcome: "true" or "throw"
    svcNative,        \* the native functions it called, in order
    svcCalls,         \* number of method calls so far
    currentlyLoadedModel, \* the tracked model, or "null"
    loadedModels,     \* the models Ollama holds in VRAM
    qPc,              \* position of processQuery
    planLeft,         \* tasks of the plan not yet executed
    iterations,       \* executeWithToolLoop: iterations
    modelCalls,       \* history: ollamaChat calls made by this tool loop
    assistantMsgs,    \* assistant messages pushed to currentMessages
    toolMsgs,         \* tool results pushed to currentMessages
    errorMsgs,        \* tool error results pushed to currentMessages
    pendingTools,     \* tool calls of the response not yet executed
    loopResult,       \* how the tool loop ended: "none", "content", "exceeded", "error"
    queries,          \* queries started so far
    \* ---- OverlayWindow: creation and destruction ----
    m_initComplete,   \* the renderer thread has reported its initialization
    m_initSuccess,    \* ... and this is what it reported
    ovlShouldStop,    \* OverlayWindow::m_shouldStop
    m_windowThreadId, \* 0 until the renderer thread has stored its id
    m_hwnd,           \* the overlay window exists
    exStyle,          \* the extended styles the window was created with
    held,             \* what the renderer thread holds besides the window
    success,          \* the local of WindowThreadProc
    failedStep,       \* history: the initialization step that failed
    ovlResult,        \* what the last updateOverlay returned
    dropped           \* history: a call on the initialized addon posted nothing


hookVars == << now, m_running, m_shouldStop, m_debounceActive, m_lastKeyTime,
               m_hook, m_hookThreadId, hookQuit, hookPc, dbPc, ctxValid, dbMutex,
               dbNotified, dbDeadline, callerPc, callerOp, pollCount, crashed,
               g_initialized, g_keyboardHook, g_tsfn, tsfnQueued,
               g_overlayWindow, ovlThread, ovlQuit, g_systemMonitor,
               lastResult, prevCall, firesSinceKey, keySeen, fireKeyTime,
               staleWake >>

keyVars == << keyPending >>

extractVars == << uia, textContext, ctxLen, probe >>

coordVars == << coord, c_armed, c_native, nextId, tsfnQ, req, aborted, ctl,
                pending, received, ovlCall, caretOf, ovlAt >>

overlayVars == << m_text, msgQ, rPc, rText, m_visible, shown, painted, jsPc,
                  lastCall, callCount, writes, copyWrites, paintedEarly,
                  lastMsg, m_renderTarget, canCreate,
                  deviceLost, hideWrites, winOp, focusTaken,
                  callerTouched >>

lifeVars == << m_initComplete, m_initSuccess, ovlShouldStop, m_windowThreadId,
               m_hwnd, exStyle, held, success, failedStep, ovlResult, dropped >>

\* The registration slot of KeyboardHook and the objects of that class.
slotVars == << s_instance, instances, hooked, keyed, misrouted >>

\* The GhostTextService wrapper and what it sees of the native addon.
svcVars == << svc_initialized, svc_monitoring, addonLoaded, nativeInit,
              listeners, svcOp, svcResult, svcNative, svcCalls >>

\* The AI council: the models Ollama holds, the tracked model, and the
\* position of processQuery with the tool loop of the task in progress.
councilVars == << currentlyLoadedModel, loadedModels, qPc, planLeft,
                  iterations, modelCalls, assistantMsgs, toolMsgs, errorMsgs,
                  pendingTools, loopResult, queries >>

vars == << hookVars, keyVars, extractVars, coordVars, overlayVars, lifeVars,
           slotVars, svcVars, councilVars >>

(* --------------------------- virtual key codes ------------------------- *)

VK_BACK == 8
VK_TAB == 9
VK_RETURN == 13
VK_SHIFT == 16
VK_SPACE == 32
VK_DELETE == 46
VK_0 == 48
VK_9 == 57
VK_A == 65
VK_Z == 90
VK_NUMPAD0 == 96
VK_NUMPAD9 == 105
VK_F1 == 112
VK_OEM_1 == 186
VK_OEM_PLUS == 187
VK_OEM_COMMA == 188
VK_OEM_MINUS == 189
VK_OEM_PERIOD == 190
VK_OEM_8 == 223

\* A classification that takes every key from VK_BACK upwards for a typing
\* key, function keys and modifiers included.
IsKeyFromBackUp(vkCode) == vkCode >= VK_BACK

\* KeyboardHook::IsTypingKey
IsTypingKey(vkCode) ==
    \/ (vkCode >= VK_A /\ vkCode <= VK_Z)
    \/ (vkCode >= VK_0 /\ vkCode <= VK_9)
    \/ (vkCode >= VK_NUMPAD0 /\ vkCode <= VK_NUMPAD9)
    \/ vkCode \in {VK_SPACE, VK_RETURN, VK_BACK, VK_DELETE}
    \/ (vkCode >= VK_OEM_1 /\ vkCode <= VK_OEM_8)
    \/ vkCode \in {VK_OEM_PLUS, VK_OEM_COMMA, VK_OEM_MINUS, VK_OEM_PERIOD}
    \/ vkCode = VK_TAB

\* Key codes the keyboard produces in the model: a letter, a modifier, a
\* function key.
KeyCodes == {VK_A, VK_SHIFT, VK_F1}

(* ------------------------------------------------------------------------ *)
(* KeyboardHook: the hook thread                                            *)
(* ------------------------------------------------------------------------ *)

\* HookThreadProc up to the message pump: SetWindowsHookExW succeeds or fails.
HookInstall(ok) ==
    /\ ~crashed
    /\ hookPc = "install"
    /\ m_hookThreadId' = 1
    /\ IF ok
          THEN /\ m_hook' = TRUE
               /\ m_running' = TRUE
               /\ hookPc' = "loop"
          ELSE /\ hookPc' = "exited"
               /\ UNCHANGED << m_hook, m_running >>
    /\ UNCHANGED << now, m_shouldStop, m_debounceActive, m_lastKeyTime,
                    hookQuit, dbPc, ctxValid, dbMutex, dbNotified,
                    dbDeadline, callerPc, callerOp, pollCount, crashed,
                    g_initialized, g_keyboardHook, g_tsfn, tsfnQueued,
                    g_overlayWindow, ovlThread, ovlQuit, g_systemMonitor,
                    lastResult, prevCall, firesSinceKey, keySeen,
                    fireKeyTime, staleWake, keyVars, extractVars, coordVars,
                    overlayVars, lifeVars, slotVars, svcVars, councilVars >>

\* while (!m_shouldStop): the test at the head of the message pump.
HookLoop ==
    /\ ~crashed
    /\ hookPc = "loop"
    /\ hookPc' = IF m_shouldStop THEN "unhook" ELSE "getmsg"
    /\ UNCHANGED << now, m_running, m_shouldStop, m_debounceActive,
                    m_lastKeyTime, m_hook, m_hookThreadId, hookQuit, dbPc,
                    ctxValid, dbMutex, dbNotified, dbDeadline, callerPc,
                    callerOp, pollCount, crashed, g_initialized,
                    g_keyboardHook, g_tsfn, tsfnQueued, g_overlayWindow,
                    ovlThread, ovlQuit, g_systemMonitor, lastResult,
                    prevCall, firesSinceKey, keySeen, fireKeyTime, staleWake,
                    keyVars, extractVars, coordVars, overlayVars, lifeVars,
                    slotVars, svcVars, councilVars >>

\* GetMessageW returns 0: WM_QUIT was posted to the hook thread.
HookGetQuit ==
    /\ ~crashed
    /\ hookPc = "getmsg"
    /\ hookQuit
    /\ hookQuit' = FALSE
    /\ hookPc' = "unhook"
    /\ UNCHANGED << now, m_running, m_shouldStop, m_debounceActive,
                    m_lastKeyTime, m_hook, m_hookThreadId, dbPc, ctxValid,
                    dbMutex, dbNotified, dbDeadline, callerPc, callerOp,
                    pollCount, crashed, g_initialized, g_keyboardHook,
                    g_tsfn, tsfnQueued, g_overlayWindow, ovlThread, ovlQuit,
                    g_systemMonitor, lastResult, prevCall, firesSinceKey,
                    keySeen, fireKeyTime, staleWake, keyVars, extractVars,
                    coordVars, overlayVars, lifeVars, slotVars, svcVars,
                    councilVars >>

\* UnhookWindowsHookEx; m_running = false; the thread function returns.
HookUnhook ==
    /\ ~crashed
    /\ hookPc = "unhook"
    /\ m_hook' = FALSE
    /\ m_running' = FALSE
    /\ hookPc' = "exited"
    /\ UNCHANGED << now, m_shouldStop, m_debounceActive, m_lastKeyTime,
                    m_hookThreadId, hookQuit, dbPc, ctxValid, dbMutex,
                    dbNotified, dbDeadline, callerPc, callerOp, pollCount,
                    crashed, g_initialized, g_keyboardHook, g_tsfn,
                    tsfnQueued, g_overlayWindow, ovlThread, ovlQuit,
                    g_systemMonitor, lastResult, prevCall, firesSinceKey,
                    keySeen, fireKeyTime, staleWake, keyVars, extractVars,
                    coordVars, overlayVars, lifeVars, slotVars, svcVars,
                    councilVars >>

\* The debounce thread is blocked in one of its condition-variable waits.
DbWaiting == dbPc \in {"w1_wait", "w2_wait"}

\* A reset that arms the timer but keeps the time of the earlier key.
ResetKeepsKeyTime ==
    /\ m_lastKeyTime' = m_lastKeyTime
    /\ m_debounceActive' = TRUE
    /\ dbNotified' = IF ~m_debounceActive /\ DbWaiting THEN TRUE ELSE dbNotified

\* A reset that is skipped while the debounce thread is in OnTypingPaused.
ResetUnlessInCallback ==
    IF dbPc = "fire" \/ dbPc = "cb"
       THEN UNCHANGED << m_lastKeyTime, m_debounceActive, dbNotified >>
       ELSE /\ m_lastKeyTime' = now
            /\ m_debounceActive' = TRUE
            /\ dbNotified' = IF ~m_debounceActive /\ DbWaiting
                                THEN TRUE ELSE dbNotified

\* ResetDebounceTimer, run with m_debounceMutex held: lastKeyTime = now; if the
\* timer is idle it is armed and the condition variable notified.
ResetDebounceTimer ==
    /\ m_lastKeyTime' = now
    /\ m_debounceActive' = TRUE
    /\ dbNotified' = IF ~m_debounceActive /\ DbWaiting THEN TRUE ELSE dbNotified

\* OnKeyPress without the LLKHF_INJECTED test: every typing key code resets
\* the timer, whoever produced the event.
OnKeyPressIgnoringFlag(vkCode, injected) ==
    /\ ~crashed
    /\ hookPc = "getmsg"
    /\ m_hook
    /\ g_keyboardHook
    /\ now + DebounceMs <= MaxTime
    /\ IF IsTypingKey(vkCode)
          THEN /\ dbMutex = "free"
               /\ ResetDebounceTimer
               /\ firesSinceKey' = 0
               /\ keySeen' = TRUE
               /\ staleWake' = IF m_debounceActive THEN staleWake ELSE FALSE
          ELSE UNCHANGED << m_lastKeyTime, m_debounceActive, dbNotified,
                            firesSinceKey, keySeen, staleWake >>

\* KeyboardHook::OnKeyPress for one key-down event, run by the hook thread
\* inside GetMessageW: injected and non-typing keys return at once, a
\* qualifying key runs ResetDebounceTimer under m_debounceMutex.
OnKeyPressEffect(vkCode, injected) ==
    /\ ~crashed
    /\ hookPc = "getmsg"
    /\ m_hook
    /\ g_keyboardHook
    /\ now + DebounceMs <= MaxTime
    /\ IF ~injected /\ IsTypingKey(vkCode)
          THEN /\ dbMutex = "free"
               /\ ResetDebounceTimer
               /\ firesSinceKey' = 0
               /\ keySeen' = TRUE
               /\ staleWake' = IF m_debounceActive THEN staleWake ELSE FALSE
          ELSE UNCHANGED << m_lastKeyTime, m_debounceActive, dbNotified,
                            firesSinceKey, keySeen, staleWake >>

\* LowLevelKeyboardProc -> OnKeyPress for one key-down event.
OnKeyPress(vkCode, injected) ==
    /\ OnKeyPressEffect(vkCode, injected)
    /\ UNCHANGED << now, m_running, m_shouldStop, m_hook, m_hookThreadId,
                    hookQuit, hookPc, dbPc, ctxValid, dbMutex, dbDeadline,
                    callerPc, callerOp, pollCount, crashed, g_initialized,
                    g_keyboardHook, g_tsfn, tsfnQueued, g_overlayWindow,
                    ovlThread, ovlQuit, g_systemMonitor, lastResult,
                    prevCall, fireKeyTime, keyVars, extractVars, coordVars,
                    overlayVars, lifeVars, slotVars, svcVars, councilVars >>

\* No key event is inside LowLevelKeyboardProc.
NoKey == [vkCode |-> 0 - 1, injected |-> FALSE, done |-> TRUE]

\* A key-down event reaches LowLevelKeyboardProc (nCode HC_ACTION, wParam
\* WM_KEYDOWN or WM_SYSKEYDOWN) with its KBDLLHOOKSTRUCT; the hook thread
\* delivers one event at a time.
KeyArrives(vkCode, injected) ==
    /\ ~crashed
    /\ hookPc = "getmsg"
    /\ m_hook
    /\ g_keyboardHook
    /\ keyPending = NoKey
    /\ now + DebounceMs <= MaxTime
    /\ keyPending' = [vkCode |-> vkCode, injected |-> injected, done |-> FALSE]
    /\ UNCHANGED << hookVars, extractVars, coordVars, overlayVars, lifeVars,
                    slotVars, svcVars, councilVars >>

\* LowLevelKeyboardProc hands the delivered event to OnKeyPress.
KeyHandled ==
    /\ ~keyPending.done
    /\ OnKeyPressEffect(keyPending.vkCode, keyPending.injected)
    /\ keyPending' = [keyPending EXCEPT !.done = TRUE]
    /\ UNCHANGED << now, m_running, m_shouldStop, m_hook, m_hookThreadId,
                    hookQuit, hookPc, dbPc, ctxValid, dbMutex, dbDeadline,
                    callerPc, callerOp, pollCount, crashed, g_initialized,
                    g_keyboardHook, g_tsfn, tsfnQueued, g_overlayWindow,
                    ovlThread, ovlQuit, g_systemMonitor, lastResult,
                    prevCall, fireKeyTime, extractVars, coordVars,
                    overlayVars, lifeVars, slotVars, svcVars, councilVars >>

\* LowLevelKeyboardProc returns through CallNextHookEx.
KeyReturn ==
    /\ keyPending # NoKey
    /\ keyPending.done
    /\ keyPending' = NoKey
    /\ UNCHANGED << hookVars, extractVars, coordVars, overlayVars, lifeVars,
                    slotVars, svcVars, councilVars >>

\* The clock advances by one tick.
Tick ==
    /\ ~crashed
    /\ now < MaxTime
    /\ now' = now + 1
    /\ UNCHANGED << m_running, m_shouldStop, m_debounceActive, m_lastKeyTime,
                    m_hook, m_hookThreadId, hookQuit, hookPc, dbPc, ctxValid,
                    dbMutex, dbNotified, dbDeadline, callerPc, callerOp,
                    pollCount, crashed, g_initialized, g_keyboardHook,
                    g_tsfn, tsfnQueued, g_overlayWindow, ovlThread, ovlQuit,
                    g_systemMonitor, lastResult, prevCall, firesSinceKey,
                    keySeen, fireKeyTime, staleWake, keyVars, extractVars,
                    coordVars, overlayVars, lifeVars, slotVars, svcVars,
                    councilVars >>

(* ------------------------------------------------------------------------ *)
(* KeyboardHook: the debounce thread (DebounceThreadProc)                   *)
(* ------------------------------------------------------------------------ *)

\* while (!m_shouldStop) { unique_lock lock(m_debounceMutex);
DbTop ==
    /\ ~crashed
    /\ dbPc = "top"
    /\ IF m_shouldStop
          THEN /\ dbPc' = "exited"
               /\ UNCHANGED dbMutex
          ELSE /\ dbMutex = "free"
               /\ dbMutex' = "db"
               /\ dbPc' = "w1_pred"
    /\ ctxValid' = "none"
    /\ UNCHANGED << now, m_running, m_shouldStop, m_debounceActive,
                    m_lastKeyTime, m_hook, m_hookThreadId, hookQuit, hookPc,
                    dbNotified, dbDeadline, callerPc, callerOp, pollCount,
                    crashed, g_initialized, g_keyboardHook, g_tsfn,
                    tsfnQueued, g_overlayWindow, ovlThread, ovlQuit,
                    g_systemMonitor, lastResult, prevCall, firesSinceKey,
                    keySeen, fireKeyTime, staleWake, keyVars, extractVars,
                    coordVars, overlayVars, lifeVars, slotVars, svcVars,
                    councilVars >>

\* m_debounceCV.wait(lock, pred): the predicate m_debounceActive || m_shouldStop
\* is evaluated with the mutex held.
DbWait1Pred ==
    /\ ~crashed
    /\ dbPc = "w1_pred"
    /\ dbPc' = IF m_debounceActive \/ m_shouldStop THEN "post_w1" ELSE "w1_block"
    /\ UNCHANGED << now, m_running, m_shouldStop, m_debounceActive,
                    m_lastKeyTime, m_hook, m_hookThreadId, hookQuit, hookPc,
                    ctxValid, dbMutex, dbNotified, dbDeadline, callerPc,
                    callerOp, pollCount, crashed, g_initialized,
                    g_keyboardHook, g_tsfn, tsfnQueued, g_overlayWindow,
                    ovlThread, ovlQuit, g_systemMonitor, lastResult,
                    prevCall, firesSinceKey, keySeen, fireKeyTime, staleWake,
                    keyVars, extractVars, coordVars, overlayVars, lifeVars,
                    slotVars, svcVars, councilVars >>

\* The predicate was false: the thread releases the mutex and blocks.  A
\* notification sent before this point is not seen.
DbWait1Block ==
    /\ ~crashed
    /\ dbPc = "w1_block"
    /\ dbMutex' = "free"
    /\ dbNotified' = FALSE
    /\ dbPc' = "w1_wait"
    /\ UNCHANGED << now, m_running, m_shouldStop, m_debounceActive,
                    m_lastKeyTime, m_hook, m_hookThreadId, hookQuit, hookPc,
                    ctxValid, dbDeadline, callerPc, callerOp, pollCount,
                    crashed, g_initialized, g_keyboardHook, g_tsfn,
                    tsfnQueued, g_overlayWindow, ovlThread, ovlQuit,
                    g_systemMonitor, lastResult, prevCall, firesSinceKey,
                    keySeen, fireKeyTime, staleWake, keyVars, extractVars,
                    coordVars, overlayVars, lifeVars, slotVars, svcVars,
                    councilVars >>

\* The blocked thread is notified, takes the mutex again and re-tests.
DbWait1Wake ==
    /\ ~crashed
    /\ dbPc = "w1_wait"
    /\ dbNotified
    /\ dbMutex = "free"
    /\ dbMutex' = "db"
    /\ dbNotified' = FALSE
    /\ dbPc' = "w1_pred"
    /\ UNCHANGED << now, m_running, m_shouldStop, m_debounceActive,
                    m_lastKeyTime, m_hook, m_hookThreadId, hookQuit, hookPc,
                    ctxValid, dbDeadline, callerPc, callerOp, pollCount,
                    crashed, g_initialized, g_keyboardHook, g_tsfn,
                    tsfnQueued, g_overlayWindow, ovlThread, ovlQuit,
                    g_systemMonitor, lastResult, prevCall, firesSinceKey,
                    keySeen, fireKeyTime, staleWake, keyVars, extractVars,
                    coordVars, overlayVars, lifeVars, slotVars, svcVars,
                    councilVars >>

\* if (m_shouldStop) break;  deadline = m_lastKeyTime + m_debounceMs;
DbAfterWait1 ==
    /\ ~crashed
    /\ dbPc = "post_w1"
    /\ IF m_shouldStop
          THEN /\ dbMutex' = "free"
               /\ dbPc' = "exited"
               /\ UNCHANGED dbDeadline
          ELSE /\ dbDeadline' = m_lastKeyTime + DebounceMs
               /\ dbPc' = "w2_pred"
               /\ UNCHANGED dbMutex
    /\ UNCHANGED << now, m_running, m_shouldStop, m_debounceActive,
                    m_lastKeyTime, m_hook, m_hookThreadId, hookQuit, hookPc,
                    ctxValid, dbNotified, callerPc, callerOp, pollCount,
                    crashed, g_initialized, g_keyboardHook, g_tsfn,
                    tsfnQueued, g_overlayWindow, ovlThread, ovlQuit,
                    g_systemMonitor, lastResult, prevCall, firesSinceKey,
                    keySeen, fireKeyTime, staleWake, keyVars, extractVars,
                    coordVars, overlayVars, lifeVars, slotVars, svcVars,
                    councilVars >>

\* wait_until(lock, deadline, pred): the predicate m_shouldStop ||
\* !m_debounceActive, tested before blocking; true means `continue`.
DbWait2Pred ==
    /\ ~crashed
    /\ dbPc = "w2_pred"
    /\ IF m_shouldStop \/ ~m_debounceActive
          THEN /\ dbMutex' = "free"
               /\ dbDeadline' = 0
               /\ dbPc' = "top"
          ELSE /\ dbPc' = "w2_block"
               /\ UNCHANGED << dbMutex, dbDeadline >>
    /\ UNCHANGED << now, m_running, m_shouldStop, m_debounceActive,
                    m_lastKeyTime, m_hook, m_hookThreadId, hookQuit, hookPc,
                    ctxValid, dbNotified, callerPc, callerOp, pollCount,
                    crashed, g_initialized, g_keyboardHook, g_tsfn,
                    tsfnQueued, g_overlayWindow, ovlThread, ovlQuit,
                    g_systemMonitor, lastResult, prevCall, firesSinceKey,
                    keySeen, fireKeyTime, staleWake, keyVars, extractVars,
                    coordVars, overlayVars, lifeVars, slotVars, svcVars,
                    councilVars >>

\* The predicate was false: block until notified or until the deadline; a
\* deadline already reached is a timeout at once.
DbWait2Block ==
    /\ ~crashed
    /\ dbPc = "w2_block"
    /\ IF now >= dbDeadline
          THEN /\ dbPc' = "timeout"
               /\ UNCHANGED << dbMutex, dbNotified >>
          ELSE /\ dbMutex' = "free"
               /\ dbNotified' = FALSE
               /\ dbPc' = "w2_wait"
    /\ UNCHANGED << now, m_running, m_shouldStop, m_debounceActive,
                    m_lastKeyTime, m_hook, m_hookThreadId, hookQuit, hookPc,
                    ctxValid, dbDeadline, callerPc, callerOp, pollCount,
                    crashed, g_initialized, g_keyboardHook, g_tsfn,
                    tsfnQueued, g_overlayWindow, ovlThread, ovlQuit,
                    g_systemMonitor, lastResult, prevCall, firesSinceKey,
                    keySeen, fireKeyTime, staleWake, keyVars, extractVars,
                    coordVars, overlayVars, lifeVars, slotVars, svcVars,
                    councilVars >>

\* The timed wait ends, by a notification or at the deadline; the thread takes
\* the mutex again.
DbWait2Wake ==
    /\ ~crashed
    /\ dbPc = "w2_wait"
    /\ dbNotified \/ now >= dbDeadline
    /\ dbMutex = "free"
    /\ dbMutex' = "db"
    /\ dbNotified' = FALSE
    /\ dbPc' = IF now >= dbDeadline THEN "timeout" ELSE "w2_pred"
    /\ UNCHANGED << now, m_running, m_shouldStop, m_debounceActive,
                    m_lastKeyTime, m_hook, m_hookThreadId, hookQuit, hookPc,
                    ctxValid, dbDeadline, callerPc, callerOp, pollCount,
                    crashed, g_initialized, g_keyboardHook, g_tsfn,
                    tsfnQueued, g_overlayWindow, ovlThread, ovlQuit,
                    g_systemMonitor, lastResult, prevCall, firesSinceKey,
                    keySeen, fireKeyTime, staleWake, keyVars, extractVars,
                    coordVars, overlayVars, lifeVars, slotVars, svcVars,
                    councilVars >>

\* The firing test without its elapsed-time half.
ShouldFireWheneverArmed(elapsed) == m_debounceActive

\* if (elapsed >= m_debounceMs && m_debounceActive)
ShouldFire(elapsed) == elapsed >= DebounceMs /\ m_debounceActive

\* A firing that leaves the timer armed.
ActiveStaysSet == TRUE

\* m_debounceActive = false; the value the firing leaves in the flag.
ActiveAfterFire == FALSE

\* The wait timed out: wait_until returns pred(); when it is false the thread
\* reads the clock and fires if the quiet period has elapsed.
DbTimeout ==
    /\ ~crashed
    /\ dbPc = "timeout"
    /\ dbMutex' = "free"
    /\ dbDeadline' = 0
    /\ IF m_shouldStop \/ ~m_debounceActive
          THEN /\ dbPc' = "top"
               /\ UNCHANGED << m_debounceActive, firesSinceKey, fireKeyTime,
                               staleWake >>
          ELSE IF ShouldFire(now - m_lastKeyTime)
                 THEN /\ m_debounceActive' = ActiveAfterFire
                      /\ dbPc' = "fire"
                      /\ firesSinceKey' = IF firesSinceKey < 2
                                            THEN firesSinceKey + 1 ELSE 2
                      /\ fireKeyTime' = m_lastKeyTime
                      /\ UNCHANGED staleWake
                 ELSE /\ dbPc' = "top"
                      /\ staleWake' = TRUE
                      /\ UNCHANGED << m_debounceActive, firesSinceKey,
                                      fireKeyTime >>
    /\ UNCHANGED << now, m_running, m_shouldStop, m_lastKeyTime, m_hook,
                    m_hookThreadId, hookQuit, hookPc, ctxValid, dbNotified,
                    callerPc, callerOp, pollCount, crashed, g_initialized,
                    g_keyboardHook, g_tsfn, tsfnQueued, g_overlayWindow,
                    ovlThread, ovlQuit, g_systemMonitor, lastResult,
                    prevCall, keySeen, keyVars, extractVars, coordVars,
                    overlayVars, lifeVars, slotVars, svcVars, councilVars >>

\* An OnTypingPaused that hands every context to the callback.
CallsBackAlways(valid) == TRUE

\* if (!ctx.valid) return;
CallsBack(valid) == valid

\* KeyboardHook::OnTypingPaused, first half: GetCurrentContext returns a valid
\* context, an invalid one, or raises.  The call is outside the try block and
\* the thread function has no handler, so an exception reaches std::terminate.
DbExtract(outcome) ==
    /\ ~crashed
    /\ dbPc = "fire"
    /\ CASE outcome \in {"valid", "invalid"} ->
              /\ ctxValid' = outcome
              /\ dbPc' = IF CallsBack(outcome = "valid") THEN "cb" ELSE "top"
              /\ UNCHANGED crashed
         [] outcome = "throw" ->
              /\ crashed' = TRUE
              /\ UNCHANGED << dbPc, ctxValid >>
    /\ UNCHANGED << now, m_running, m_shouldStop, m_debounceActive,
                    m_lastKeyTime, m_hook, m_hookThreadId, hookQuit, hookPc,
                    dbMutex, dbNotified, dbDeadline, callerPc, callerOp,
                    pollCount, g_initialized, g_keyboardHook, g_tsfn,
                    tsfnQueued, g_overlayWindow, ovlThread, ovlQuit,
                    g_systemMonitor, lastResult, prevCall, firesSinceKey,
                    keySeen, fireKeyTime, staleWake, keyVars, extractVars,
                    coordVars, overlayVars, lifeVars, slotVars, svcVars,
                    councilVars >>

\* KeyboardHook::OnTypingPaused, second half: m_typingPausedCallback(ctx)
\* inside try/catch(...).  The callback is main.cpp OnTypingPaused: it queues
\* a call on g_tsfn (NonBlockingCall) when g_tsfn is set.
DbCallback(outcome) ==
    /\ ~crashed
    /\ dbPc = "cb"
    /\ dbPc' = "top"
    /\ ctxValid' = "none"
    /\ tsfnQueued' = IF outcome = "ok" /\ g_tsfn THEN tsfnQueued + 1
                                                  ELSE tsfnQueued
    /\ UNCHANGED << now, m_running, m_shouldStop, m_debounceActive,
                    m_lastKeyTime, m_hook, m_hookThreadId, hookQuit, hookPc,
                    dbMutex, dbNotified, dbDeadline, callerPc, callerOp,
                    pollCount, crashed, g_initialized, g_keyboardHook,
                    g_tsfn, g_overlayWindow, ovlThread, ovlQuit,
                    g_systemMonitor, lastResult, prevCall, firesSinceKey,
                    keySeen, fireKeyTime, staleWake, keyVars, extractVars,
                    coordVars, overlayVars, lifeVars, slotVars, svcVars,
                    councilVars >>

(* ------------------------------------------------------------------------ *)
(* OverlayWindow: the renderer thread from its start to its message pump    *)
(* ------------------------------------------------------------------------ *)

\* What WindowThreadProc holds once its initialization succeeded, besides the
\* window and the device resources.
AllHeld == {"com", "d2dFactory", "dwriteFactory", "textFormat", "windowClass"}

\* CreateOverlayWindow: DWORD exStyle = WS_EX_LAYERED | WS_EX_TRANSPARENT |
\* WS_EX_TOPMOST | WS_EX_NOACTIVATE | WS_EX_TOOLWINDOW.
OverlayExStyle ==
    {"WS_EX_LAYERED", "WS_EX_TRANSPARENT", "WS_EX_TOPMOST", "WS_EX_NOACTIVATE",
     "WS_EX_TOOLWINDOW"}

\* A CreateOverlayWindow that leaves the window behind when the device
\* resources cannot be created.
HwndKeptOnDeviceFailure(outcome) == outcome # "window_fail"

\* CreateOverlayWindow: m_hwnd is set when CreateWindowExW succeeded and
\* stays set only if CreateDeviceResources succeeded too; otherwise the window
\* is destroyed and m_hwnd cleared.
HwndAfterCreate(outcome) == outcome = "ok"

\* A join that does not wait for the thread.
JoinSkipped(thread) == TRUE

\* m_windowThread.join() returns when the thread function has returned.
JoinReturns(thread) == thread = "exited"

\* PostThreadMessageW(m_windowThreadId, WM_QUIT, 0, 0) reaches a thread that
\* has a message queue and has not returned.
QuitReaches(thread) == thread = "running" \/ thread = "loop"

\* WindowThreadProc, lines 376-386: the thread stores its id and initializes
\* COM; on failure it reports the failure and returns.
OvlThreadStart(ok) ==
    /\ ovlThread = "start"
    /\ m_windowThreadId' = 1
    /\ IF ok
          THEN /\ held' = held \cup {"com"}
               /\ ovlThread' = "d2d"
               /\ UNCHANGED << m_initComplete, m_initSuccess, failedStep >>
          ELSE /\ m_initComplete' = TRUE
               /\ m_initSuccess' = FALSE
               /\ failedStep' = "com"
               /\ ovlThread' = "exited"
               /\ UNCHANGED held
    /\ UNCHANGED << now, m_running, m_shouldStop, m_debounceActive,
                    m_lastKeyTime, m_hook, m_hookThreadId, hookQuit, hookPc,
                    dbPc, ctxValid, dbMutex, dbNotified, dbDeadline,
                    callerPc, callerOp, pollCount, crashed, g_initialized,
                    g_keyboardHook, g_tsfn, tsfnQueued, g_overlayWindow,
                    ovlQuit, g_systemMonitor, lastResult, prevCall,
                    firesSinceKey, keySeen, fireKeyTime, staleWake, keyVars,
                    extractVars, coordVars, overlayVars, ovlShouldStop,
                    m_hwnd, exStyle, success, ovlResult, dropped, slotVars,
                    svcVars, councilVars >>

\* InitializeD2D: the Direct2D factory, the DirectWrite factory, the text
\* format.
OvlInitializeD2D(outcome) ==
    /\ ovlThread = "d2d"
    /\ CASE outcome = "ok" ->
              /\ held' = held \cup {"d2dFactory", "dwriteFactory", "textFormat"}
              /\ ovlThread' = "class"
              /\ UNCHANGED failedStep
         [] outcome = "d2d_fail" ->
              /\ failedStep' = "d2dFactory"
              /\ ovlThread' = "signal"
              /\ UNCHANGED held
         [] outcome = "dwrite_fail" ->
              /\ held' = held \cup {"d2dFactory"}
              /\ failedStep' = "dwriteFactory"
              /\ ovlThread' = "signal"
    /\ UNCHANGED << now, m_running, m_shouldStop, m_debounceActive,
                    m_lastKeyTime, m_hook, m_hookThreadId, hookQuit, hookPc,
                    dbPc, ctxValid, dbMutex, dbNotified, dbDeadline,
                    callerPc, callerOp, pollCount, crashed, g_initialized,
                    g_keyboardHook, g_tsfn, tsfnQueued, g_overlayWindow,
                    ovlQuit, g_systemMonitor, lastResult, prevCall,
                    firesSinceKey, keySeen, fireKeyTime, staleWake, keyVars,
                    extractVars, coordVars, overlayVars, m_initComplete,
                    m_initSuccess, ovlShouldStop, m_windowThreadId, m_hwnd,
                    exStyle, success, ovlResult, dropped, slotVars, svcVars,
                    councilVars >>

\* RegisterWindowClass
OvlRegisterWindowClass(ok) ==
    /\ ovlThread = "class"
    /\ IF ok
          THEN /\ held' = held \cup {"windowClass"}
               /\ ovlThread' = "window"
               /\ UNCHANGED failedStep
          ELSE /\ failedStep' = "windowClass"
               /\ ovlThread' = "signal"
               /\ UNCHANGED held
    /\ UNCHANGED << now, m_running, m_shouldStop, m_debounceActive,
                    m_lastKeyTime, m_hook, m_hookThreadId, hookQuit, hookPc,
                    dbPc, ctxValid, dbMutex, dbNotified, dbDeadline,
                    callerPc, callerOp, pollCount, crashed, g_initialized,
                    g_keyboardHook, g_tsfn, tsfnQueued, g_overlayWindow,
                    ovlQuit, g_systemMonitor, lastResult, prevCall,
                    firesSinceKey, keySeen, fireKeyTime, staleWake, keyVars,
                    extractVars, coordVars, overlayVars, m_initComplete,
                    m_initSuccess, ovlShouldStop, m_windowThreadId, m_hwnd,
                    exStyle, success, ovlResult, dropped, slotVars, svcVars,
                    councilVars >>

\* CreateOverlayWindow: CreateWindowExW, then CreateDeviceResources; success
\* is set when both succeeded.
OvlCreateOverlayWindow(outcome) ==
    /\ ovlThread = "window"
    /\ m_hwnd' = HwndAfterCreate(outcome)
    /\ exStyle' = IF HwndAfterCreate(outcome) THEN OverlayExStyle ELSE {}
    /\ m_renderTarget' = (outcome = "ok")
    /\ success' = (outcome = "ok")
    /\ failedStep' = CASE outcome = "ok" -> failedStep
                       [] outcome = "window_fail" -> "window"
                       [] outcome = "device_fail" -> "device"
    /\ ovlThread' = "signal"
    /\ UNCHANGED << now, m_running, m_shouldStop, m_debounceActive,
                    m_lastKeyTime, m_hook, m_hookThreadId, hookQuit, hookPc,
                    dbPc, ctxValid, dbMutex, dbNotified, dbDeadline,
                    callerPc, callerOp, pollCount, crashed, g_initialized,
                    g_keyboardHook, g_tsfn, tsfnQueued, g_overlayWindow,
                    ovlQuit, g_systemMonitor, lastResult, prevCall,
                    firesSinceKey, keySeen, fireKeyTime, staleWake, keyVars,
                    extractVars, coordVars, m_text, msgQ, rPc, rText,
                    m_visible, shown, painted, jsPc, lastCall, callCount,
                    writes, copyWrites, paintedEarly, lastMsg, canCreate,
                    deviceLost, hideWrites, winOp, focusTaken, callerTouched,
                    m_initComplete, m_initSuccess, ovlShouldStop,
                    m_windowThreadId, held, ovlResult, dropped, slotVars,
                    svcVars, councilVars >>

\* WindowThreadProc, lines 401-406: the outcome is reported with m_initMutex
\* held and the condition variable notified.
OvlSignalInit ==
    /\ ovlThread = "signal"
    /\ m_initComplete' = TRUE
    /\ m_initSuccess' = success
    /\ ovlThread' = IF success THEN "running" ELSE "uninit"
    /\ UNCHANGED << now, m_running, m_shouldStop, m_debounceActive,
                    m_lastKeyTime, m_hook, m_hookThreadId, hookQuit, hookPc,
                    dbPc, ctxValid, dbMutex, dbNotified, dbDeadline,
                    callerPc, callerOp, pollCount, crashed, g_initialized,
                    g_keyboardHook, g_tsfn, tsfnQueued, g_overlayWindow,
                    ovlQuit, g_systemMonitor, lastResult, prevCall,
                    firesSinceKey, keySeen, fireKeyTime, staleWake, keyVars,
                    extractVars, coordVars, overlayVars, ovlShouldStop,
                    m_windowThreadId, m_hwnd, exStyle, held, success,
                    failedStep, ovlResult, dropped, slotVars, svcVars,
                    councilVars >>

\* if (!success) { CoUninitialize(); return; }
OvlInitFailedExit ==
    /\ ovlThread = "uninit"
    /\ held' = held \ {"com"}
    /\ ovlQuit' = FALSE
    /\ ovlThread' = "exited"
    /\ UNCHANGED << now, m_running, m_shouldStop, m_debounceActive,
                    m_lastKeyTime, m_hook, m_hookThreadId, hookQuit, hookPc,
                    dbPc, ctxValid, dbMutex, dbNotified, dbDeadline,
                    callerPc, callerOp, pollCount, crashed, g_initialized,
                    g_keyboardHook, g_tsfn, tsfnQueued, g_overlayWindow,
                    g_systemMonitor, lastResult, prevCall, firesSinceKey,
                    keySeen, fireKeyTime, staleWake, keyVars, extractVars,
                    coordVars, overlayVars, m_initComplete, m_initSuccess,
                    ovlShouldStop, m_windowThreadId, m_hwnd, exStyle,
                    success, failedStep, ovlResult, dropped, slotVars,
                    svcVars, councilVars >>

\* m_running = true; the thread enters its message pump.
OvlSetRunning ==
    /\ ovlThread = "running"
    /\ ovlThread' = "loop"
    /\ UNCHANGED << now, m_running, m_shouldStop, m_debounceActive,
                    m_lastKeyTime, m_hook, m_hookThreadId, hookQuit, hookPc,
                    dbPc, ctxValid, dbMutex, dbNotified, dbDeadline,
                    callerPc, callerOp, pollCount, crashed, g_initialized,
                    g_keyboardHook, g_tsfn, tsfnQueued, g_overlayWindow,
                    ovlQuit, g_systemMonitor, lastResult, prevCall,
                    firesSinceKey, keySeen, fireKeyTime, staleWake, keyVars,
                    extractVars, coordVars, overlayVars, lifeVars, slotVars,
                    svcVars, councilVars >>

\* The OverlayWindow object before Initialize, or after a successful one with
\* its thread in the message pump.
LifeInitWith(initialized) ==
    /\ m_initComplete = initialized
    /\ m_initSuccess = initialized
    /\ ovlShouldStop = FALSE
    /\ m_windowThreadId = IF initialized THEN 1 ELSE 0
    /\ m_hwnd = initialized
    /\ exStyle = IF initialized THEN OverlayExStyle ELSE {}
    /\ m_renderTarget = initialized
    /\ held = IF initialized THEN AllHeld ELSE {}
    /\ success = initialized
    /\ failedStep = "none"
    /\ ovlResult = "none"
    /\ dropped = FALSE

(* ------------------------------------------------------------------------ *)
(* The calling thread: StartMonitoring, StopMonitoring, Shutdown            *)
(* ------------------------------------------------------------------------ *)

StartPcs == {"start_poll", "start_check", "start_setstop", "start_join"}

StopPcs == {"stop_l64", "stop_l65", "stop_l66", "stop_l69", "stop_l74",
            "stop_l78", "stop_l82"}

ShutdownPcs == {"shut_destroy", "shut_join"}

\* A native call returns: the outcome is recorded.
Returns(outcome) ==
    /\ callerPc' = "idle"
    /\ callerOp' = "none"
    /\ lastResult' = outcome
    /\ prevCall' = lastResult

\* main.cpp StartMonitoring with KeyboardHook::Start up to the thread spawn.
\* Without initialize() it raises; otherwise g_tsfn is (re)created and the
\* callbacks are set.  Start returns true at once when m_running is set; else
\* it clears the two flags and starts the hook thread.
StartMonitoring ==
    /\ ~crashed
    /\ callerPc = "idle"
    /\ jsPc = "idle"
    /\ IF ~g_initialized
          THEN /\ Returns("error")
               /\ UNCHANGED << g_tsfn, m_shouldStop, m_debounceActive, hookPc,
                               pollCount, keySeen, firesSinceKey >>
          ELSE IF m_running
                 THEN /\ g_tsfn' = TRUE
                      /\ Returns("started")
                      /\ UNCHANGED << m_shouldStop, m_debounceActive, hookPc,
                                      pollCount, keySeen, firesSinceKey >>
                 ELSE /\ hookPc = "none"
                      /\ g_tsfn' = TRUE
                      /\ m_shouldStop' = FALSE
                      /\ m_debounceActive' = FALSE
                      /\ hookPc' = "install"
                      /\ pollCount' = 0
                      /\ keySeen' = FALSE
                      /\ firesSinceKey' = 0
                      /\ callerPc' = "start_poll"
                      /\ callerOp' = "startMonitoring"
                      /\ UNCHANGED << lastResult, prevCall >>
    /\ UNCHANGED << now, m_running, m_lastKeyTime, m_hook, m_hookThreadId,
                    hookQuit, dbPc, ctxValid, dbMutex, dbNotified,
                    dbDeadline, crashed, g_initialized, g_keyboardHook,
                    tsfnQueued, g_overlayWindow, ovlThread, ovlQuit,
                    g_systemMonitor, fireKeyTime, staleWake, keyVars,
                    extractVars, coordVars, overlayVars, lifeVars, slotVars,
                    svcVars, councilVars >>

\* for (i = 0; i < 50 && !m_running; ++i) sleep_for(10ms);
StartPoll ==
    /\ ~crashed
    /\ callerPc = "start_poll"
    /\ IF pollCount < StartPolls /\ ~m_running
          THEN /\ pollCount' = pollCount + 1
               /\ UNCHANGED callerPc
          ELSE /\ pollCount' = 0
               /\ callerPc' = "start_check"
    /\ UNCHANGED << now, m_running, m_shouldStop, m_debounceActive,
                    m_lastKeyTime, m_hook, m_hookThreadId, hookQuit, hookPc,
                    dbPc, ctxValid, dbMutex, dbNotified, dbDeadline,
                    callerOp, crashed, g_initialized, g_keyboardHook, g_tsfn,
                    tsfnQueued, g_overlayWindow, ovlThread, ovlQuit,
                    g_systemMonitor, lastResult, prevCall, firesSinceKey,
                    keySeen, fireKeyTime, staleWake, keyVars, extractVars,
                    coordVars, overlayVars, lifeVars, slotVars, svcVars,
                    councilVars >>

\* if (!m_running) ... else the debounce thread is started and Start returns true.
StartCheck ==
    /\ ~crashed
    /\ callerPc = "start_check"
    /\ IF ~m_running
          THEN /\ callerPc' = "start_setstop"
               /\ UNCHANGED << callerOp, lastResult, prevCall, dbPc >>
          ELSE /\ dbPc' = "top"
               /\ Returns("started")
    /\ UNCHANGED << now, m_running, m_shouldStop, m_debounceActive,
                    m_lastKeyTime, m_hook, m_hookThreadId, hookQuit, hookPc,
                    ctxValid, dbMutex, dbNotified, dbDeadline, pollCount,
                    crashed, g_initialized, g_keyboardHook, g_tsfn,
                    tsfnQueued, g_overlayWindow, ovlThread, ovlQuit,
                    g_systemMonitor, firesSinceKey, keySeen, fireKeyTime,
                    staleWake, keyVars, extractVars, coordVars, overlayVars,
                    lifeVars, slotVars, svcVars, councilVars >>

\* m_shouldStop = true; (failure path of Start)
StartSetStop ==
    /\ ~crashed
    /\ callerPc = "start_setstop"
    /\ m_shouldStop' = TRUE
    /\ callerPc' = "start_join"
    /\ UNCHANGED << now, m_running, m_debounceActive, m_lastKeyTime, m_hook,
                    m_hookThreadId, hookQuit, hookPc, dbPc, ctxValid,
                    dbMutex, dbNotified, dbDeadline, callerOp, pollCount,
                    crashed, g_initialized, g_keyboardHook, g_tsfn,
                    tsfnQueued, g_overlayWindow, ovlThread, ovlQuit,
                    g_systemMonitor, lastResult, prevCall, firesSinceKey,
                    keySeen, fireKeyTime, staleWake, keyVars, extractVars,
                    coordVars, overlayVars, lifeVars, slotVars, svcVars,
                    councilVars >>

\* m_hookThread.join(); return false; StartMonitoring raises.
StartJoin ==
    /\ ~crashed
    /\ callerPc = "start_join"
    /\ hookPc = "exited"
    /\ hookPc' = "none"
    /\ Returns("error")
    /\ UNCHANGED << now, m_running, m_shouldStop, m_debounceActive,
                    m_lastKeyTime, m_hook, m_hookThreadId, hookQuit, dbPc,
                    ctxValid, dbMutex, dbNotified, dbDeadline, pollCount,
                    crashed, g_initialized, g_keyboardHook, g_tsfn,
                    tsfnQueued, g_overlayWindow, ovlThread, ovlQuit,
                    g_systemMonitor, firesSinceKey, keySeen, fireKeyTime,
                    staleWake, keyVars, extractVars, coordVars, overlayVars,
                    lifeVars, slotVars, svcVars, councilVars >>

\* Stop without its guard: the body runs on every call.
StopAlwaysRuns == FALSE

\* if (!m_running && !m_hookThread.joinable()) return;
StopReturnsEarly == ~m_running /\ hookPc = "none"

\* main.cpp StopMonitoring: g_keyboardHook->Stop(), then g_tsfn is released.
StopMonitoring ==
    /\ ~crashed
    /\ callerPc = "idle"
    /\ IF g_keyboardHook /\ ~StopReturnsEarly
          THEN /\ callerPc' = "stop_l64"
               /\ callerOp' = "stopMonitoring"
               /\ UNCHANGED << lastResult, prevCall, g_tsfn >>
          ELSE /\ g_tsfn' = FALSE
               /\ Returns("stopped")
    /\ UNCHANGED << now, m_running, m_shouldStop, m_debounceActive,
                    m_lastKeyTime, m_hook, m_hookThreadId, hookQuit, hookPc,
                    dbPc, ctxValid, dbMutex, dbNotified, dbDeadline,
                    pollCount, crashed, g_initialized, g_keyboardHook,
                    tsfnQueued, g_overlayWindow, ovlThread, ovlQuit,
                    g_systemMonitor, firesSinceKey, keySeen, fireKeyTime,
                    staleWake, keyVars, extractVars, coordVars, overlayVars,
                    lifeVars, slotVars, svcVars, councilVars >>

\* KeyboardHook::Stop: m_shouldStop = true;
StopSetFlag ==
    /\ ~crashed
    /\ callerPc = "stop_l64"
    /\ m_shouldStop' = TRUE
    /\ callerPc' = "stop_l65"
    /\ UNCHANGED << now, m_running, m_debounceActive, m_lastKeyTime, m_hook,
                    m_hookThreadId, hookQuit, hookPc, dbPc, ctxValid,
                    dbMutex, dbNotified, dbDeadline, callerOp, pollCount,
                    crashed, g_initialized, g_keyboardHook, g_tsfn,
                    tsfnQueued, g_overlayWindow, ovlThread, ovlQuit,
                    g_systemMonitor, lastResult, prevCall, firesSinceKey,
                    keySeen, fireKeyTime, staleWake, keyVars, extractVars,
                    coordVars, overlayVars, lifeVars, slotVars, svcVars,
                    councilVars >>

\* KeyboardHook::Stop: m_debounceActive = false;  (m_debounceMutex not held)
StopDisarm ==
    /\ ~crashed
    /\ callerPc = "stop_l65"
    /\ m_debounceActive' = FALSE
    /\ callerPc' = "stop_l66"
    /\ UNCHANGED << now, m_running, m_shouldStop, m_lastKeyTime, m_hook,
                    m_hookThreadId, hookQuit, hookPc, dbPc, ctxValid,
                    dbMutex, dbNotified, dbDeadline, callerOp, pollCount,
                    crashed, g_initialized, g_keyboardHook, g_tsfn,
                    tsfnQueued, g_overlayWindow, ovlThread, ovlQuit,
                    g_systemMonitor, lastResult, prevCall, firesSinceKey,
                    keySeen, fireKeyTime, staleWake, keyVars, extractVars,
                    coordVars, overlayVars, lifeVars, slotVars, svcVars,
                    councilVars >>

\* KeyboardHook::Stop: m_debounceCV.notify_all();  It wakes the debounce
\* thread only if that thread is blocked in a wait at this moment.
StopNotify ==
    /\ ~crashed
    /\ callerPc = "stop_l66"
    /\ dbNotified' = IF DbWaiting THEN TRUE ELSE dbNotified
    /\ callerPc' = "stop_l69"
    /\ UNCHANGED << now, m_running, m_shouldStop, m_debounceActive,
                    m_lastKeyTime, m_hook, m_hookThreadId, hookQuit, hookPc,
                    dbPc, ctxValid, dbMutex, dbDeadline, callerOp, pollCount,
                    crashed, g_initialized, g_keyboardHook, g_tsfn,
                    tsfnQueued, g_overlayWindow, ovlThread, ovlQuit,
                    g_systemMonitor, lastResult, prevCall, firesSinceKey,
                    keySeen, fireKeyTime, staleWake, keyVars, extractVars,
                    coordVars, overlayVars, lifeVars, slotVars, svcVars,
                    councilVars >>

\* KeyboardHook::Stop: PostThreadMessageW(m_hookThreadId, WM_QUIT, 0, 0);
StopPostQuit ==
    /\ ~crashed
    /\ callerPc = "stop_l69"
    /\ hookQuit' = IF m_hookThreadId # 0 /\ hookPc \notin {"none", "exited"}
                     THEN TRUE ELSE hookQuit
    /\ callerPc' = "stop_l74"
    /\ UNCHANGED << now, m_running, m_shouldStop, m_debounceActive,
                    m_lastKeyTime, m_hook, m_hookThreadId, hookPc, dbPc,
                    ctxValid, dbMutex, dbNotified, dbDeadline, callerOp,
                    pollCount, crashed, g_initialized, g_keyboardHook,
                    g_tsfn, tsfnQueued, g_overlayWindow, ovlThread, ovlQuit,
                    g_systemMonitor, lastResult, prevCall, firesSinceKey,
                    keySeen, fireKeyTime, staleWake, keyVars, extractVars,
                    coordVars, overlayVars, lifeVars, slotVars, svcVars,
                    councilVars >>

\* KeyboardHook::Stop: m_hookThread.join();
StopJoinHook ==
    /\ ~crashed
    /\ callerPc = "stop_l74"
    /\ IF hookPc = "none"
          THEN UNCHANGED << hookPc, hookQuit >>
          ELSE /\ hookPc = "exited"
               /\ hookPc' = "none"
               /\ hookQuit' = FALSE
    /\ callerPc' = "stop_l78"
    /\ UNCHANGED << now, m_running, m_shouldStop, m_debounceActive,
                    m_lastKeyTime, m_hook, m_hookThreadId, dbPc, ctxValid,
                    dbMutex, dbNotified, dbDeadline, callerOp, pollCount,
                    crashed, g_initialized, g_keyboardHook, g_tsfn,
                    tsfnQueued, g_overlayWindow, ovlThread, ovlQuit,
                    g_systemMonitor, lastResult, prevCall, firesSinceKey,
                    keySeen, fireKeyTime, staleWake, keyVars, extractVars,
                    coordVars, overlayVars, lifeVars, slotVars, svcVars,
                    councilVars >>

\* KeyboardHook::Stop: m_debounceThread.join();
StopJoinDebounce ==
    /\ ~crashed
    /\ callerPc = "stop_l78"
    /\ IF dbPc = "none"
          THEN UNCHANGED dbPc
          ELSE /\ JoinReturns(dbPc)
               /\ dbPc' = IF dbPc = "exited" THEN "none" ELSE dbPc
    /\ callerPc' = "stop_l82"
    /\ UNCHANGED << now, m_running, m_shouldStop, m_debounceActive,
                    m_lastKeyTime, m_hook, m_hookThreadId, hookQuit, hookPc,
                    ctxValid, dbMutex, dbNotified, dbDeadline, callerOp,
                    pollCount, crashed, g_initialized, g_keyboardHook,
                    g_tsfn, tsfnQueued, g_overlayWindow, ovlThread, ovlQuit,
                    g_systemMonitor, lastResult, prevCall, firesSinceKey,
                    keySeen, fireKeyTime, staleWake, keyVars, extractVars,
                    coordVars, overlayVars, lifeVars, slotVars, svcVars,
                    councilVars >>

\* KeyboardHook::Stop: m_running = false; m_hookThreadId = 0; return.  Back in
\* StopMonitoring g_tsfn is released; back in Shutdown g_keyboardHook is reset
\* (the destructor's Stop returns early) and g_tsfn released.
StopFinish ==
    /\ ~crashed
    /\ callerPc = "stop_l82"
    /\ m_running' = FALSE
    /\ m_hookThreadId' = 0
    /\ g_tsfn' = FALSE
    /\ IF callerOp = "shutdown"
          THEN /\ g_keyboardHook' = FALSE
               /\ callerPc' = "shut_destroy"
               /\ UNCHANGED << callerOp, lastResult, prevCall >>
          ELSE /\ Returns("stopped")
               /\ UNCHANGED g_keyboardHook
    /\ UNCHANGED << now, m_shouldStop, m_debounceActive, m_lastKeyTime,
                    m_hook, hookQuit, hookPc, dbPc, ctxValid, dbMutex,
                    dbNotified, dbDeadline, pollCount, crashed,
                    g_initialized, tsfnQueued, g_overlayWindow, ovlThread,
                    ovlQuit, g_systemMonitor, firesSinceKey, keySeen,
                    fireKeyTime, staleWake, keyVars, extractVars, coordVars,
                    overlayVars, lifeVars, slotVars, svcVars, councilVars >>

\* main.cpp Shutdown, entry: the keyboard hook is stopped first.  When there is
\* nothing left to release the call only clears g_initialized.
Shutdown ==
    /\ ~crashed
    /\ callerPc = "idle"
    /\ jsPc = "idle"
    /\ IF g_keyboardHook /\ ~StopReturnsEarly
          THEN /\ callerPc' = "stop_l64"
               /\ callerOp' = "shutdown"
               /\ UNCHANGED << lastResult, prevCall, g_keyboardHook, g_tsfn,
                               g_systemMonitor, g_initialized >>
          ELSE /\ g_keyboardHook' = FALSE
               /\ g_tsfn' = FALSE
               /\ IF g_overlayWindow
                    THEN /\ callerPc' = "shut_destroy"
                         /\ callerOp' = "shutdown"
                         /\ UNCHANGED << lastResult, prevCall, g_systemMonitor,
                                         g_initialized >>
                    ELSE /\ g_systemMonitor' = FALSE
                         /\ g_initialized' = FALSE
                         /\ Returns("shutdown")
    /\ UNCHANGED << now, m_running, m_shouldStop, m_debounceActive,
                    m_lastKeyTime, m_hook, m_hookThreadId, hookQuit, hookPc,
                    dbPc, ctxValid, dbMutex, dbNotified, dbDeadline,
                    pollCount, crashed, tsfnQueued, g_overlayWindow,
                    ovlThread, ovlQuit, firesSinceKey, keySeen, fireKeyTime,
                    staleWake, keyVars, extractVars, coordVars, overlayVars,
                    lifeVars, slotVars, svcVars, councilVars >>

\* OverlayWindow::Destroy from Shutdown.  Without a running or joinable
\* thread it returns at once; otherwise m_shouldStop is set and WM_QUIT is
\* posted to the renderer thread.
ShutdownDestroyOverlay ==
    /\ ~crashed
    /\ callerPc = "shut_destroy"
    /\ IF ovlThread = "none"
          THEN UNCHANGED << ovlShouldStop, ovlQuit >>
          ELSE /\ ovlShouldStop' = TRUE
               /\ ovlQuit' = IF QuitReaches(ovlThread) THEN TRUE ELSE ovlQuit
    /\ callerPc' = "shut_join"
    /\ UNCHANGED << now, m_running, m_shouldStop, m_debounceActive,
                    m_lastKeyTime, m_hook, m_hookThreadId, hookQuit, hookPc,
                    dbPc, ctxValid, dbMutex, dbNotified, dbDeadline,
                    callerOp, pollCount, crashed, g_initialized,
                    g_keyboardHook, g_tsfn, tsfnQueued, g_overlayWindow,
                    ovlThread, g_systemMonitor, lastResult, prevCall,
                    firesSinceKey, keySeen, fireKeyTime, staleWake, keyVars,
                    extractVars, coordVars, overlayVars, m_initComplete,
                    m_initSuccess, m_windowThreadId, m_hwnd, exStyle, held,
                    success, failedStep, ovlResult, dropped, slotVars,
                    svcVars, councilVars >>

\* The renderer thread leaves its message pump, releases the device
\* resources, the text format and the factories, destroys the window,
\* unregisters the class, uninitializes COM, clears m_running and returns.
OvlThreadQuit ==
    /\ ~crashed
    /\ ovlThread = "loop"
    /\ ovlQuit
    /\ ovlQuit' = FALSE
    /\ m_renderTarget' = FALSE
    /\ held' = {}
    /\ m_hwnd' = FALSE
    /\ exStyle' = {}
    /\ shown' = FALSE
    /\ ovlThread' = "exited"
    /\ UNCHANGED << now, m_running, m_shouldStop, m_debounceActive,
                    m_lastKeyTime, m_hook, m_hookThreadId, hookQuit, hookPc,
                    dbPc, ctxValid, dbMutex, dbNotified, dbDeadline,
                    callerPc, callerOp, pollCount, crashed, g_initialized,
                    g_keyboardHook, g_tsfn, tsfnQueued, g_overlayWindow,
                    g_systemMonitor, lastResult, prevCall, firesSinceKey,
                    keySeen, fireKeyTime, staleWake, keyVars, extractVars,
                    coordVars, m_text, msgQ, rPc, rText, m_visible, painted,
                    jsPc, lastCall, callCount, writes, copyWrites,
                    paintedEarly, lastMsg, canCreate, deviceLost, hideWrites,
                    winOp, focusTaken, callerTouched, m_initComplete,
                    m_initSuccess, ovlShouldStop, m_windowThreadId, success,
                    failedStep, ovlResult, dropped, slotVars, svcVars,
                    councilVars >>

\* Destroy joins the renderer thread and clears m_running and m_visible;
\* then g_overlayWindow and g_systemMonitor are reset and g_initialized
\* cleared.
ShutdownFinish ==
    /\ ~crashed
    /\ callerPc = "shut_join"
    /\ IF ovlThread = "none"
          THEN UNCHANGED << ovlThread, m_visible >>
          ELSE /\ JoinReturns(ovlThread)
               /\ ovlThread' = "none"
               /\ m_visible' = FALSE
    /\ g_overlayWindow' = FALSE
    /\ g_systemMonitor' = FALSE
    /\ g_initialized' = FALSE
    /\ Returns("shutdown")
    /\ UNCHANGED << now, m_running, m_shouldStop, m_debounceActive,
                    m_lastKeyTime, m_hook, m_hookThreadId, hookQuit, hookPc,
                    dbPc, ctxValid, dbMutex, dbNotified, dbDeadline,
                    pollCount, crashed, g_keyboardHook, g_tsfn, tsfnQueued,
                    ovlQuit, firesSinceKey, keySeen, fireKeyTime, staleWake,
                    keyVars, extractVars, coordVars, m_text, msgQ, rPc,
                    rText, shown, painted, jsPc, lastCall, callCount, writes,
                    copyWrites, paintedEarly, lastMsg, m_renderTarget,
                    canCreate, deviceLost, hideWrites, winOp, focusTaken,
                    callerTouched, lifeVars, slotVars, svcVars, councilVars >>

\* The JavaScript thread, between native calls, runs one queued call of the
\* ThreadSafeFunction (the lambda given to NonBlockingCall).
TsfnDispatch ==
    /\ ~crashed
    /\ callerPc = "idle"
    /\ tsfnQueued > 0
    /\ tsfnQueued' = tsfnQueued - 1
    /\ UNCHANGED << now, m_running, m_shouldStop, m_debounceActive,
                    m_lastKeyTime, m_hook, m_hookThreadId, hookQuit, hookPc,
                    dbPc, ctxValid, dbMutex, dbNotified, dbDeadline,
                    callerPc, callerOp, pollCount, crashed, g_initialized,
                    g_keyboardHook, g_tsfn, g_overlayWindow, ovlThread,
                    ovlQuit, g_systemMonitor, lastResult, prevCall,
                    firesSinceKey, keySeen, fireKeyTime, staleWake, keyVars,
                    extractVars, coordVars, overlayVars, lifeVars, slotVars,
                    svcVars, councilVars >>

(* ------------------------------------------------------------------------ *)
(* The calling thread: initialize()                                         *)
(* ------------------------------------------------------------------------ *)

\* main.cpp Initialize with OverlayWindow::Initialize up to the wait.  An
\* initialized addon returns true at once.  Otherwise COM, the system
\* monitor and a new OverlayWindow are set up in this order; a failure of
\* the first two raises and returns false.  OverlayWindow::Initialize clears
\* its flags and starts the renderer thread.
NapiInitialize(outcome) ==
    /\ ~crashed
    /\ callerPc = "idle"
    /\ jsPc = "idle"
    /\ IF g_initialized
          THEN /\ Returns("initialized")
               /\ UNCHANGED << g_systemMonitor, g_overlayWindow, ovlThread,
                               ovlShouldStop, m_initComplete, m_initSuccess,
                               m_windowThreadId, m_hwnd, held, success,
                               failedStep, m_text, msgQ >>
          ELSE CASE outcome = "com_fail" ->
                      /\ Returns("com_failed")
                      /\ UNCHANGED << g_systemMonitor, g_overlayWindow,
                                      ovlThread, ovlShouldStop, m_initComplete,
                                      m_initSuccess, m_windowThreadId, m_hwnd,
                                      held, success, failedStep, m_text, msgQ >>
                 [] outcome = "monitor_fail" ->
                      /\ g_systemMonitor' = TRUE
                      /\ Returns("monitor_failed")
                      /\ UNCHANGED << g_overlayWindow, ovlThread,
                                      ovlShouldStop, m_initComplete,
                                      m_initSuccess, m_windowThreadId, m_hwnd,
                                      held, success, failedStep, m_text, msgQ >>
                 [] outcome = "proceed" ->
                      /\ ovlThread = "none"
                      /\ g_systemMonitor' = TRUE
                      /\ g_overlayWindow' = TRUE
                      /\ ovlShouldStop' = FALSE
                      /\ m_initComplete' = FALSE
                      /\ m_initSuccess' = FALSE
                      /\ m_windowThreadId' = 0
                      /\ m_hwnd' = FALSE
                      /\ held' = {}
                      /\ success' = FALSE
                      /\ failedStep' = "none"
                      /\ m_text' = ""
                      /\ msgQ' = << >>
                      /\ ovlThread' = "start"
                      /\ callerPc' = "init_wait"
                      /\ callerOp' = "initialize"
                      /\ UNCHANGED << lastResult, prevCall >>
    /\ UNCHANGED << now, m_running, m_shouldStop, m_debounceActive,
                    m_lastKeyTime, m_hook, m_hookThreadId, hookQuit, hookPc,
                    dbPc, ctxValid, dbMutex, dbNotified, dbDeadline,
                    pollCount, crashed, g_initialized, g_keyboardHook,
                    g_tsfn, tsfnQueued, ovlQuit, firesSinceKey, keySeen,
                    fireKeyTime, staleWake, keyVars, extractVars, coordVars,
                    rPc, rText, m_visible, shown, painted, jsPc, lastCall,
                    callCount, writes, copyWrites, paintedEarly, lastMsg,
                    m_renderTarget, canCreate, deviceLost, hideWrites, winOp,
                    focusTaken, callerTouched, exStyle, ovlResult, dropped,
                    slotVars, svcVars, councilVars >>

\* OverlayWindow::Initialize, lines 333-349: m_initCV.wait returns once
\* m_initComplete is set.  After a success main.cpp creates the keyboard
\* hook object, sets g_initialized and returns true; after a failure
\* m_shouldStop is set, WM_QUIT posted and the thread joined.
InitializeWake ==
    /\ ~crashed
    /\ callerPc = "init_wait"
    /\ m_initComplete
    /\ IF m_initSuccess
          THEN /\ g_keyboardHook' = TRUE
               /\ g_initialized' = TRUE
               /\ Returns("initialized")
               /\ UNCHANGED << ovlShouldStop, ovlQuit >>
          ELSE /\ ovlShouldStop' = TRUE
               /\ ovlQuit' = IF m_windowThreadId # 0 /\ QuitReaches(ovlThread)
                                THEN TRUE ELSE ovlQuit
               /\ callerPc' = "init_join"
               /\ UNCHANGED << g_keyboardHook, g_initialized, callerOp,
                               lastResult, prevCall >>
    /\ UNCHANGED << now, m_running, m_shouldStop, m_debounceActive,
                    m_lastKeyTime, m_hook, m_hookThreadId, hookQuit, hookPc,
                    dbPc, ctxValid, dbMutex, dbNotified, dbDeadline,
                    pollCount, crashed, g_tsfn, tsfnQueued, g_overlayWindow,
                    ovlThread, g_systemMonitor, firesSinceKey, keySeen,
                    fireKeyTime, staleWake, keyVars, extractVars, coordVars,
                    overlayVars, m_initComplete, m_initSuccess,
                    m_windowThreadId, m_hwnd, exStyle, held, success,
                    failedStep, ovlResult, dropped, slotVars, svcVars,
                    councilVars >>

\* m_windowThread.join(); return false; main.cpp raises "Failed to create
\* overlay window" and returns false.
InitializeJoin ==
    /\ ~crashed
    /\ callerPc = "init_join"
    /\ JoinReturns(ovlThread)
    /\ ovlThread' = "none"
    /\ Returns("overlay_failed")
    /\ UNCHANGED << now, m_running, m_shouldStop, m_debounceActive,
                    m_lastKeyTime, m_hook, m_hookThreadId, hookQuit, hookPc,
                    dbPc, ctxValid, dbMutex, dbNotified, dbDeadline,
                    pollCount, crashed, g_initialized, g_keyboardHook,
                    g_tsfn, tsfnQueued, g_overlayWindow, ovlQuit,
                    g_systemMonitor, firesSinceKey, keySeen, fireKeyTime,
                    staleWake, keyVars, extractVars, coordVars, overlayVars,
                    lifeVars, slotVars, svcVars, councilVars >>

(* ------------------------------------------------------------------------ *)
(* KeyboardHook::s_instance and the objects of the class                    *)
(* ------------------------------------------------------------------------ *)

Instances == 1 .. MaxInstances

\* KeyboardHook::KeyboardHook: s_instance = this;
SlotAfterConstruct(slot, i) == i

\* KeyboardHook::~KeyboardHook: if (s_instance == this) s_instance = nullptr;
SlotAfterDestroy(slot, i) == IF slot = i THEN 0 ELSE slot

\* The constructor.
Construct(i) ==
    /\ i \notin instances
    /\ instances' = instances \cup {i}
    /\ s_instance' = SlotAfterConstruct(s_instance, i)
    /\ UNCHANGED << hookVars, keyVars, extractVars, coordVars, overlayVars,
                    lifeVars, hooked, keyed, misrouted, svcVars, councilVars >>

\* The destructor: Stop() removes the hook, then the slot is cleared if it
\* refers to this object.
Destruct(i) ==
    /\ i \in instances
    /\ instances' = instances \ {i}
    /\ hooked' = hooked \ {i}
    /\ keyed' = keyed \ {i}
    /\ s_instance' = SlotAfterDestroy(s_instance, i)
    /\ UNCHANGED << hookVars, keyVars, extractVars, coordVars, overlayVars,
                    lifeVars, misrouted, svcVars, councilVars >>

\* Start() of an object: its hook thread installs LowLevelKeyboardProc.
InstanceStart(i) ==
    /\ i \in instances \ hooked
    /\ hooked' = hooked \cup {i}
    /\ UNCHANGED << hookVars, keyVars, extractVars, coordVars, overlayVars,
                    lifeVars, s_instance, instances, keyed, misrouted,
                    svcVars, councilVars >>

\* Stop() of an object.
InstanceStop(i) ==
    /\ i \in hooked
    /\ hooked' = hooked \ {i}
    /\ keyed' = keyed \ {i}
    /\ UNCHANGED << hookVars, keyVars, extractVars, coordVars, overlayVars,
                    lifeVars, s_instance, instances, misrouted, svcVars,
                    councilVars >>

\* LowLevelKeyboardProc, called for a typing key through the hook that object
\* i installed: the event goes to s_instance->OnKeyPress, or nowhere when the
\* slot is empty.
InstanceKey(i) ==
    /\ i \in hooked
    /\ keyed' = IF s_instance # 0 THEN keyed \cup {s_instance} ELSE keyed
    /\ misrouted' = (misrouted \/ s_instance # i)
    /\ UNCHANGED << hookVars, keyVars, extractVars, coordVars, overlayVars,
                    lifeVars, s_instance, instances, hooked, svcVars,
                    councilVars >>

\* The debounce thread of a running object fires.
InstanceFires(i) ==
    /\ i \in hooked \cap keyed
    /\ keyed' = keyed \ {i}
    /\ UNCHANGED << hookVars, keyVars, extractVars, coordVars, overlayVars,
                    lifeVars, s_instance, instances, hooked, misrouted,
                    svcVars, councilVars >>

SlotInit ==
    /\ s_instance = 0
    /\ instances = {}
    /\ hooked = {}
    /\ keyed = {}
    /\ misrouted = FALSE
(* ------------------------------------------------------------------------ *)
(* GhostTextService: the JavaScript wrapper of the native addon             *)
(* ------------------------------------------------------------------------ *)

\* Outcomes of a native call: it returns true or throws.
NativeOutcomes == {"true", "throw"}

\* A startMonitoring without its first guard.
StartGuardMissing == FALSE

\* if (!this._initialized) throw new Error('Not initialized. ...');
StartGuardThrows == ~svc_initialized

\* A method call ends: its name, outcome and native calls are recorded.
SvcEnds(op, result, native) ==
    /\ svcCalls < MaxSvcCalls
    /\ svcCalls' = svcCalls + 1
    /\ svcOp' = op
    /\ svcResult' = result
    /\ svcNative' = native

\* initialize(): throws without the addon, returns true when already
\* initialized, else calls ghostText.initialize() and stores its result.
SvcInitialize(outcome) ==
    /\ IF ~addonLoaded
          THEN /\ SvcEnds("initialize", "throw", << >>)
               /\ UNCHANGED << svc_initialized, nativeInit >>
          ELSE IF svc_initialized
                 THEN /\ SvcEnds("initialize", "true", << >>)
                      /\ UNCHANGED << svc_initialized, nativeInit >>
                 ELSE /\ SvcEnds("initialize", outcome, << "initialize" >>)
                      /\ svc_initialized' = (outcome = "true")
                      /\ nativeInit' = (nativeInit \/ outcome = "true")
    /\ UNCHANGED << hookVars, keyVars, extractVars, coordVars, overlayVars,
                    lifeVars, slotVars, svc_monitoring, addonLoaded,
                    listeners, councilVars >>

\* The native startMonitoring as the wrapper sees it: it throws when the
\* addon is not initialized and may throw when the hook cannot be started.
NativeStartOutcome(outcome) == IF nativeInit THEN outcome ELSE "throw"

\* startMonitoring(): throws when not initialized, returns true when already
\* monitoring, else calls ghostText.startMonitoring(cb) and stores its result.
SvcStartMonitoring(outcome) ==
    /\ IF StartGuardThrows
          THEN /\ SvcEnds("startMonitoring", "throw", << >>)
               /\ UNCHANGED << svc_monitoring, listeners >>
          ELSE IF svc_monitoring
                 THEN /\ SvcEnds("startMonitoring", "true", << >>)
                      /\ UNCHANGED << svc_monitoring, listeners >>
                 ELSE /\ SvcEnds("startMonitoring", NativeStartOutcome(outcome),
                                 << "startMonitoring" >>)
                      /\ IF NativeStartOutcome(outcome) = "true"
                            THEN /\ svc_monitoring' = TRUE
                                 /\ listeners' = listeners + 1
                            ELSE UNCHANGED << svc_monitoring, listeners >>
    /\ UNCHANGED << hookVars, keyVars, extractVars, coordVars, overlayVars,
                    lifeVars, slotVars, svc_initialized, addonLoaded,
                    nativeInit, councilVars >>

\* stopMonitoring(): returns true when not monitoring, else calls
\* ghostText.stopMonitoring() and clears _monitoring when it returned.
SvcStopMonitoring(outcome) ==
    /\ IF ~svc_monitoring
          THEN /\ SvcEnds("stopMonitoring", "true", << >>)
               /\ UNCHANGED << svc_monitoring, listeners >>
          ELSE /\ SvcEnds("stopMonitoring", outcome, << "stopMonitoring" >>)
               /\ IF outcome = "true"
                     THEN /\ svc_monitoring' = FALSE
                          /\ listeners' = 0
                     ELSE UNCHANGED << svc_monitoring, listeners >>
    /\ UNCHANGED << hookVars, keyVars, extractVars, coordVars, overlayVars,
                    lifeVars, slotVars, svc_initialized, addonLoaded,
                    nativeInit, councilVars >>

\* shutdown(): returns true when not initialized; else this.stopMonitoring(),
\* then ghostText.shutdown(), then _initialized is cleared.  A throw of either
\* native call leaves the rest undone.
SvcShutdown(stopOutcome, outcome) ==
    /\ IF ~svc_initialized
          THEN /\ SvcEnds("shutdown", "true", << >>)
               /\ UNCHANGED << svc_initialized, svc_monitoring, nativeInit,
                               listeners >>
          ELSE IF svc_monitoring /\ stopOutcome = "throw"
                 THEN /\ SvcEnds("shutdown", "throw", << "stopMonitoring" >>)
                      /\ UNCHANGED << svc_initialized, svc_monitoring, nativeInit,
                                      listeners >>
                 ELSE /\ SvcEnds("shutdown", outcome,
                                 IF svc_monitoring
                                   THEN << "stopMonitoring", "shutdown" >>
                                   ELSE << "shutdown" >>)
                      /\ svc_monitoring' = FALSE
                      /\ listeners' = 0
                      /\ IF outcome = "true"
                            THEN /\ svc_initialized' = FALSE
                                 /\ nativeInit' = FALSE
                            ELSE UNCHANGED << svc_initialized, nativeInit >>
    /\ UNCHANGED << hookVars, keyVars, extractVars, coordVars, overlayVars,
                    lifeVars, slotVars, addonLoaded, councilVars >>

\* updateOverlay(), getTextContext() (throw when not initialized) and
\* hideOverlay() (returns true when not initialized): otherwise the native
\* function is called and its result returned or its error thrown again.
SvcPassThrough(op, outcome) ==
    /\ IF ~svc_initialized
          THEN SvcEnds(op, IF op = "hideOverlay" THEN "true" ELSE "throw",
                       << >>)
          ELSE SvcEnds(op, outcome, << op >>)
    /\ UNCHANGED << hookVars, keyVars, extractVars, coordVars, overlayVars,
                    lifeVars, slotVars, svc_initialized, svc_monitoring,
                    addonLoaded, nativeInit, listeners, councilVars >>

\* The constructor: both flags are false.
SvcInitWith(loaded) ==
    /\ svc_initialized = FALSE
    /\ svc_monitoring = FALSE
    /\ addonLoaded = loaded
    /\ nativeInit = FALSE
    /\ listeners = 0
    /\ svcOp = "none"
    /\ svcResult = "none"
    /\ svcNative = << >>
    /\ svcCalls = 0
(* ------------------------------------------------------------------------ *)
(* The AI council: single-model loading and the tool loop                   *)
(* ------------------------------------------------------------------------ *)

\* CHAIRMAN_MODEL and MEMBER_MODEL.
chairmanModel == "qwen3:14b"
memberModel == "qwen3:8b"

LoopPcs == {"loop_top", "loop_chat", "loop_tool"}

\* unloadModel(modelName): with response.ok Ollama has dropped the model and
\* the tracker is cleared if it names it; otherwise nothing changes.
LoadedAfterUnload(modelName, ok) ==
    IF ok THEN loadedModels \ {modelName} ELSE loadedModels

TrackerAfterUnload(modelName, ok) ==
    IF ok /\ currentlyLoadedModel = modelName THEN "null"
                                              ELSE currentlyLoadedModel

\* ensureSingleModelLoaded(targetModel): a tracked model other than the
\* target is unloaded; the tracker is set to the target whatever the unload
\* returned.
EnsureSingleModelLoaded(targetModel, ok) ==
    /\ loadedModels' =
          IF currentlyLoadedModel # "null" /\ currentlyLoadedModel # targetModel
            THEN LoadedAfterUnload(currentlyLoadedModel, ok)
            ELSE loadedModels
    /\ currentlyLoadedModel' = targetModel

\* A successful /api/chat request: Ollama loads the model to answer.
LoadedAfterChat(model) == loadedModels \cup {model}

\* The while condition of executeWithToolLoop without its bound.
LoopContinuesAlways(i) == TRUE

\* while (iterations < maxIterations)
LoopContinues(i) == i < maxIterations

\* The tool loop of a task starts: iterations = 0, currentMessages is a copy
\* of the two starting messages.
LoopStarts ==
    /\ iterations' = 0
    /\ modelCalls' = 0
    /\ assistantMsgs' = 0
    /\ toolMsgs' = 0
    /\ errorMsgs' = 0
    /\ pendingTools' = 0
    /\ loopResult' = "none"

\* processQuery, phase 1: ensureSingleModelLoaded(this.chairmanModel).
Phase1Ensure(ok) ==
    /\ qPc = "idle"
    /\ queries < MaxQueries
    /\ queries' = queries + 1
    /\ EnsureSingleModelLoaded(chairmanModel, ok)
    /\ qPc' = "p1_chat"
    /\ LoopStarts
    /\ UNCHANGED << hookVars, keyVars, extractVars, coordVars, overlayVars,
                    lifeVars, slotVars, svcVars, planLeft >>

\* Phase 1: the chairman is asked for the plan.  A failed request or a reply
\* that is no plan ends the session with success: false.
Phase1Chat(ok, tasks) ==
    /\ qPc = "p1_chat"
    /\ IF ok
          THEN /\ loadedModels' = LoadedAfterChat(chairmanModel)
               /\ planLeft' = tasks
               /\ qPc' = "p2_unload"
          ELSE /\ qPc' = "idle"
               /\ UNCHANGED << loadedModels, planLeft >>
    /\ UNCHANGED << hookVars, keyVars, extractVars, coordVars, overlayVars,
                    lifeVars, slotVars, svcVars, currentlyLoadedModel,
                    iterations, modelCalls, assistantMsgs, toolMsgs,
                    errorMsgs, pendingTools, loopResult, queries >>

\* Phase 2: await unloadModel(this.chairmanModel).
Phase2Unload(ok) ==
    /\ qPc = "p2_unload"
    /\ loadedModels' = LoadedAfterUnload(chairmanModel, ok)
    /\ currentlyLoadedModel' = TrackerAfterUnload(chairmanModel, ok)
    /\ qPc' = "p2_ensure"
    /\ UNCHANGED << hookVars, keyVars, extractVars, coordVars, overlayVars,
                    lifeVars, slotVars, svcVars, planLeft, iterations,
                    modelCalls, assistantMsgs, toolMsgs, errorMsgs,
                    pendingTools, loopResult, queries >>

\* Phase 2: await ensureSingleModelLoaded(this.memberModel); then the tasks
\* are executed one after the other.
Phase2Ensure(ok) ==
    /\ qPc = "p2_ensure"
    /\ EnsureSingleModelLoaded(memberModel, ok)
    /\ qPc' = IF planLeft > 0 THEN "loop_top" ELSE "p3_unload"
    /\ UNCHANGED << hookVars, keyVars, extractVars, coordVars, overlayVars,
                    lifeVars, slotVars, svcVars, planLeft, iterations,
                    modelCalls, assistantMsgs, toolMsgs, errorMsgs,
                    pendingTools, loopResult, queries >>

\* The tool loop has ended (return or throw, both taken up by
\* executeCouncilMemberTask): the next task starts, or phase 2 is over.
TaskEnds(result) ==
    /\ loopResult' = result
    /\ planLeft' = planLeft - 1
    /\ qPc' = "task_done"

\* executeWithToolLoop: the while condition; past the bound the loop throws
\* 'Tool loop exceeded maximum iterations'.
LoopTop ==
    /\ qPc = "loop_top"
    /\ IF LoopContinues(iterations)
          THEN /\ iterations' = iterations + 1
               /\ qPc' = "loop_chat"
               /\ UNCHANGED << loopResult, planLeft >>
          ELSE /\ TaskEnds("exceeded")
               /\ UNCHANGED iterations
    /\ UNCHANGED << hookVars, keyVars, extractVars, coordVars, overlayVars,
                    lifeVars, slotVars, svcVars, currentlyLoadedModel,
                    loadedModels, modelCalls, assistantMsgs, toolMsgs,
                    errorMsgs, pendingTools, queries >>

\* executeWithToolLoop: await ollamaChat({ model: this.memberModel, ... }).
\* The request fails, or the message asks for tool calls, or it is the final
\* answer.
LoopChat(response, calls) ==
    /\ qPc = "loop_chat"
    /\ modelCalls' = modelCalls + 1
    /\ CASE response = "error" ->
              /\ TaskEnds("error")
              /\ UNCHANGED << loadedModels, assistantMsgs, pendingTools >>
         [] response = "tool_calls" ->
              /\ loadedModels' = LoadedAfterChat(memberModel)
              /\ assistantMsgs' = assistantMsgs + 1
              /\ pendingTools' = calls
              /\ qPc' = "loop_tool"
              /\ UNCHANGED << loopResult, planLeft >>
         [] response = "final" ->
              /\ loadedModels' = LoadedAfterChat(memberModel)
              /\ TaskEnds("content")
              /\ UNCHANGED << assistantMsgs, pendingTools >>
    /\ UNCHANGED << hookVars, keyVars, extractVars, coordVars, overlayVars,
                    lifeVars, slotVars, svcVars, currentlyLoadedModel,
                    iterations, toolMsgs, errorMsgs, queries >>

\* executeWithToolLoop: await executeTool(toolName, toolArgs) inside try: the
\* result, or the error of a failing tool, is pushed as a tool message.
LoopTool(ok) ==
    /\ qPc = "loop_tool"
    /\ IF ok
          THEN toolMsgs' = toolMsgs + 1 /\ UNCHANGED errorMsgs
          ELSE errorMsgs' = errorMsgs + 1 /\ UNCHANGED toolMsgs
    /\ pendingTools' = pendingTools - 1
    /\ qPc' = IF pendingTools = 1 THEN "loop_top" ELSE "loop_tool"
    /\ UNCHANGED << hookVars, keyVars, extractVars, coordVars, overlayVars,
                    lifeVars, slotVars, svcVars, currentlyLoadedModel,
                    loadedModels, planLeft, iterations, modelCalls,
                    assistantMsgs, loopResult, queries >>

\* executePhase2_CouncilExecution: the for loop goes to the next task.
TaskNext ==
    /\ qPc = "task_done"
    /\ IF planLeft > 0
          THEN /\ LoopStarts
               /\ qPc' = "loop_top"
          ELSE /\ qPc' = "p3_unload"
               /\ UNCHANGED << iterations, modelCalls, assistantMsgs,
                               toolMsgs, errorMsgs, pendingTools, loopResult >>
    /\ UNCHANGED << hookVars, keyVars, extractVars, coordVars, overlayVars,
                    lifeVars, slotVars, svcVars, currentlyLoadedModel,
                    loadedModels, planLeft, queries >>

\* Phase 3: await unloadModel(this.memberModel).
Phase3Unload(ok) ==
    /\ qPc = "p3_unload"
    /\ loadedModels' = LoadedAfterUnload(memberModel, ok)
    /\ currentlyLoadedModel' = TrackerAfterUnload(memberModel, ok)
    /\ qPc' = "p3_ensure"
    /\ UNCHANGED << hookVars, keyVars, extractVars, coordVars, overlayVars,
                    lifeVars, slotVars, svcVars, planLeft, iterations,
                    modelCalls, assistantMsgs, toolMsgs, errorMsgs,
                    pendingTools, loopResult, queries >>

\* Phase 3: await ensureSingleModelLoaded(this.chairmanModel).
Phase3Ensure(ok) ==
    /\ qPc = "p3_ensure"
    /\ EnsureSingleModelLoaded(chairmanModel, ok)
    /\ qPc' = "p3_chat"
    /\ UNCHANGED << hookVars, keyVars, extractVars, coordVars, overlayVars,
                    lifeVars, slotVars, svcVars, planLeft, iterations,
                    modelCalls, assistantMsgs, toolMsgs, errorMsgs,
                    pendingTools, loopResult, queries >>

\* Phase 3: the chairman writes the final answer; processQuery returns.
Phase3Chat(ok) ==
    /\ qPc = "p3_chat"
    /\ loadedModels' = IF ok THEN LoadedAfterChat(chairmanModel)
                             ELSE loadedModels
    /\ qPc' = "idle"
    /\ UNCHANGED << hookVars, keyVars, extractVars, coordVars, overlayVars,
                    lifeVars, slotVars, svcVars, currentlyLoadedModel,
                    planLeft, iterations, modelCalls, assistantMsgs,
                    toolMsgs, errorMsgs, pendingTools, loopResult, queries >>

\* The module is loaded: no model is tracked and Ollama holds none.
CouncilInit ==
    /\ currentlyLoadedModel = "null"
    /\ loadedModels = {}
    /\ qPc = "idle"
    /\ planLeft = 0
    /\ iterations = 0
    /\ modelCalls = 0
    /\ assistantMsgs = 0
    /\ toolMsgs = 0
    /\ errorMsgs = 0
    /\ pendingTools = 0
    /\ loopResult = "none"
    /\ queries = 0
(* ------------------------------------------------------------------------ *)
(* SystemMonitor: the context extractor                                     *)
(* ------------------------------------------------------------------------ *)

Min(a, b) == IF a < b THEN a ELSE b

\* The text behind each interface of the focused element; every character
\* carries its origin and its position, so that texts of different sources and
\* different ends of one text are distinguishable.
DocText(e) == [i \in 1..e.docLen |-> << "doc", i >>]
ValueText(e) == [i \in 1..e.valueLen |-> << "value", i >>]
NameText(e) == [i \in 1..e.nameLen |-> << "name", i >>]

\* The text of the document between two character offsets.
RangeText(e, from, to) == SubSeq(DocText(e), from + 1, to)

\* MoveEndpointByUnit(Start, Character, -contextLength): the start endpoint
\* moves back by contextLength characters or to the start of the document.
MoveStartBack(start, contextLength) == start - Min(contextLength, start)

\* IUIAutomationTextRange::GetText(maxLength): the text of the range from its
\* start, cut after maxLength characters; -1 asks for all of it.
GetText(s, maxLength) ==
    IF maxLength < 0 THEN s ELSE SubSeq(s, 1, Min(maxLength, Len(s)))

\* A BSTR out-parameter received in a CComBSTR tests false when the provider
\* hands back a null pointer, which some providers do for the empty string.
IsNullBstr(s, e) == s = << >> /\ e.emptyIsNull

\* if (text.length() > contextLength) return text.substr(text.length() -
\* contextLength); return text;
Trailing(s, contextLength) ==
    IF Len(s) > contextLength
       THEN SubSeq(s, Len(s) - contextLength + 1, Len(s))
       ELSE s

\* The caret range of TextPattern2 is usable: the pattern is there and
\* GetCaretRange succeeded with an active range.
CaretRangeActive(e) == e.tp2 /\ e.caretActive

\* Strategy (a): the caret range, its start moved back by contextLength.
TextFromCaretRange(e, contextLength) ==
    GetText(RangeText(e, MoveStartBack(e.caretPos, contextLength), e.caretPos),
            0 - 1)

\* Strategy (b), selection: the first selection range, its start moved back
\* by contextLength; the end of the range stays where the selection ends.
TextFromSelection(e, contextLength) ==
    GetText(RangeText(e, MoveStartBack(e.selStart, contextLength), e.selEnd),
            0 - 1)

\* Strategy (b), document: documentRange->GetText(contextLength), then the
\* last contextLength characters of what came back.
TextFromDocument(e, contextLength) ==
    Trailing(GetText(DocText(e), contextLength), contextLength)

NoText == [text |-> << >>, source |-> "none"]

\* A text-pattern lookup that stops after the caret range of TextPattern2.
GetTextFromCaretRangeOnly(e, contextLength) ==
    IF CaretRangeActive(e)
          /\ ~IsNullBstr(TextFromCaretRange(e, contextLength), e)
       THEN [text |-> TextFromCaretRange(e, contextLength), source |-> "caret"]
       ELSE NoText

\* SystemMonitor::GetTextFromTextPattern
GetTextFromTextPattern(e, contextLength) ==
    IF CaretRangeActive(e)
          /\ ~IsNullBstr(TextFromCaretRange(e, contextLength), e)
       THEN [text |-> TextFromCaretRange(e, contextLength), source |-> "caret"]
    ELSE IF e.tp1 /\ e.hasSel
               /\ ~IsNullBstr(TextFromSelection(e, contextLength), e)
       THEN [text |-> TextFromSelection(e, contextLength),
             source |-> "selection"]
    ELSE IF e.tp1 /\ ~IsNullBstr(GetText(DocText(e), contextLength), e)
       THEN [text |-> TextFromDocument(e, contextLength),
             source |-> "document"]
    ELSE NoText

\* SystemMonitor::GetTextFromValuePattern: the value, else the Name property.
GetTextFromValuePattern(e, contextLength) ==
    IF e.vp /\ ~IsNullBstr(ValueText(e), e)
       THEN [text |-> Trailing(ValueText(e), contextLength), source |-> "value"]
    ELSE IF ~IsNullBstr(NameText(e), e)
       THEN [text |-> Trailing(NameText(e), contextLength), source |-> "name"]
    ELSE NoText

\* What the element reports for its geometry: the doubles of the first
\* bounding rectangle of the caret range, the caret rectangle of the GUI thread
\* in client coordinates with the screen position of its window, and the mouse
\* cursor.
RectData == << 500, 300, 2, 18 >>
RcCaret == [left |-> 10, top |-> 20, right |-> 11, bottom |-> 37]
ClientOrigin == [x |-> 400, y |-> 250]
CursorPos == [x |-> 640, y |-> 480]

\* CaretInfo{}
NoCaret ==
    [x |-> 0, y |-> 0, width |-> 0, height |-> 0, valid |-> FALSE,
     source |-> "none"]

\* SystemMonitor::GetCaretFromTextPattern: the SAFEARRAY of GetBoundingRectangles
\* is used when uBound >= lBound + 3.
GetCaretFromTextPattern(e) ==
    IF CaretRangeActive(e) /\ e.rectLen >= 4
       THEN [x |-> RectData[1], y |-> RectData[2], width |-> RectData[3],
             height |-> RectData[4], valid |-> TRUE, source |-> "rich"]
       ELSE NoCaret

\* SystemMonitor::GetCaretFromWin32.  e.win32 says how far the chain
\* GetForegroundWindow, GetWindowThreadProcessId, GetGUIThreadInfo gets and
\* what the GUITHREADINFO holds: a caret window, only a focus window, neither.
GetCaretFromWin32(e) ==
    IF e.win32 = "caret"
       THEN [x |-> RcCaret.left + ClientOrigin.x,
             y |-> RcCaret.top + ClientOrigin.y,
             width |-> RcCaret.right - RcCaret.left,
             height |-> RcCaret.bottom - RcCaret.top,
             valid |-> TRUE, source |-> "win32"]
    ELSE IF e.win32 = "focus" /\ e.cursorOk
       THEN [x |-> CursorPos.x, y |-> CursorPos.y, width |-> 1, height |-> 16,
             valid |-> TRUE, source |-> "cursor"]
    ELSE NoCaret

\* A validity flag that looks at the text only.
ValidWhenText(text, caret) == text # << >>

\* result.valid = !result.text.empty() || result.caret.valid;
ValidOf(text, caret) == text # << >> \/ caret.valid

\* TextContext{}
NoContext == [text |-> << >>, source |-> "none", caret |-> NoCaret,
              valid |-> FALSE]

\* SystemMonitor::GetCurrentContext
GetCurrentContext(e, contextLength) ==
    IF ~e.m_initialized \/ ~e.focused
       THEN NoContext
       ELSE LET t1 == GetTextFromTextPattern(e, contextLength)
                t == IF t1.text = << >>
                        THEN GetTextFromValuePattern(e, contextLength)
                        ELSE t1
                c1 == GetCaretFromTextPattern(e)
                c == IF ~c1.valid THEN GetCaretFromWin32(e) ELSE c1
            IN  [text |-> t.text, source |-> t.source, caret |-> c,
                 valid |-> ValidOf(t.text, c)]

\* A gate that asks for the monitor object only.
MonitorExists == g_systemMonitor

\* main.cpp GetTextContext, line 217: if (!g_initialized || !g_systemMonitor)
\* return env.Null();
MonitorUsable == g_initialized /\ g_systemMonitor

\* The N-API function getTextContext(contextLength): null without an
\* initialized addon or for an invalid context, otherwise the context object.
GetTextContext(contextLength) ==
    /\ probe = "none"
    /\ ctxLen' = contextLength
    /\ IF ~MonitorUsable
          THEN /\ probe' = "null"
               /\ UNCHANGED textContext
          ELSE /\ textContext' = GetCurrentContext(uia, contextLength)
               /\ probe' = IF textContext'.valid THEN "object" ELSE "null"
    /\ UNCHANGED << hookVars, keyVars, uia, coordVars, overlayVars, lifeVars,
                    slotVars, svcVars, councilVars >>

\* KeyboardHook::OnTypingPaused on the debounce thread: GetCurrentContext()
\* with the default length; an invalid context is skipped, a valid one is
\* handed to the callback.
OnTypingPausedExtract ==
    /\ probe = "none"
    /\ g_systemMonitor
    /\ ctxLen' = DEFAULT_CONTEXT_LENGTH
    /\ textContext' = GetCurrentContext(uia, DEFAULT_CONTEXT_LENGTH)
    /\ probe' = IF textContext'.valid THEN "callback" ELSE "skipped"
    /\ UNCHANGED << hookVars, keyVars, uia, coordVars, overlayVars, lifeVars,
                    slotVars, svcVars, councilVars >>

\* No element has been examined.
NoUia ==
    [m_initialized |-> FALSE, focused |-> FALSE, tp2 |-> FALSE,
     caretActive |-> FALSE, docLen |-> 0, caretPos |-> 0, tp1 |-> FALSE,
     hasSel |-> FALSE, selStart |-> 0, selEnd |-> 0, vp |-> FALSE,
     valueLen |-> 0, nameLen |-> 0, emptyIsNull |-> FALSE, rectLen |-> 0,
     win32 |-> "nofg", cursorOk |-> FALSE]

\* The extractor has not been called.
ExtractInit ==
    /\ uia = NoUia
    /\ textContext = NoContext
    /\ ctxLen = 0
    /\ probe = "none"

\* Lengths of the SAFEARRAY of GetBoundingRectangles: none, three doubles, one
\* rectangle.
RectLens == {0, 3, 4}

\* Outcomes of the Win32 chain of GetCaretFromWin32: no foreground window, a
\* GUITHREADINFO with a caret window, with a focus window only, with neither.
Win32Outcomes == {"nofg", "caret", "focus", "neither"}

\* UI Automation reports a focused element; a field of an interface the
\* element does not offer keeps its default.
FocusedElement ==
    \E tp2 \in BOOLEAN, tp1 \in BOOLEAN, vp \in BOOLEAN, nul \in BOOLEAN,
       w \in Win32Outcomes, cur \in BOOLEAN, nl \in 0..MaxLen :
      \E act \in (IF tp2 THEN BOOLEAN ELSE {FALSE}),
         hs \in (IF tp1 THEN BOOLEAN ELSE {FALSE}),
         vl \in (IF vp THEN 0..MaxLen ELSE {0}) :
        \E dl \in (IF act \/ tp1 THEN 0..MaxLen ELSE {0}),
           rl \in (IF act THEN RectLens ELSE {0}) :
          \E cp \in (IF act THEN 0..dl ELSE {0}),
             ss \in (IF hs THEN 0..dl ELSE {0}) :
            \E se \in (IF hs THEN ss..dl ELSE {0}) :
              uia = [m_initialized |-> TRUE, focused |-> TRUE, tp2 |-> tp2,
                     caretActive |-> act, docLen |-> dl, caretPos |-> cp,
                     tp1 |-> tp1, hasSel |-> hs, selStart |-> ss,
                     selEnd |-> se, vp |-> vp, valueLen |-> vl,
                     nameLen |-> nl, emptyIsNull |-> nul, rectLen |-> rl,
                     win32 |-> w, cursorOk |-> cur]

\* The monitor is not initialized, or no focused element can be resolved.
NoElement ==
    \E ini \in BOOLEAN, w \in Win32Outcomes, cur \in BOOLEAN :
        uia = [NoUia EXCEPT !.m_initialized = ini, !.win32 = w,
                            !.cursorOk = cur]

(* ------------------------------------------------------------------------ *)
(* The hand-off to JavaScript and the coordinators                          *)
(* ------------------------------------------------------------------------ *)

Events == 1..MaxEvents

\* What the extractor found: enough text and a valid caret, too little text,
\* no valid caret, or nothing at all (TextContext::valid false).
CtxKinds == {"ok", "short", "nocaret", "invalid"}

InFlight == {"fetch", "json", "gen"}

\* KeyboardHook::ResetDebounceTimer for a qualifying key: it only arms the
\* timer, whatever the debounce thread is doing.
CoordKey ==
    /\ c_armed' = TRUE
    /\ UNCHANGED << hookVars, keyVars, extractVars, coord, c_native, nextId,
                    tsfnQ, req, aborted, ctl, pending, received, ovlCall,
                    caretOf, ovlAt, overlayVars, lifeVars, slotVars, svcVars,
                    councilVars >>

\* DebounceThreadProc reaches the deadline with the timer armed: it disarms
\* the timer and enters OnTypingPaused.
CoordPause ==
    /\ c_native = "idle"
    /\ c_armed
    /\ nextId < MaxEvents
    /\ c_armed' = FALSE
    /\ c_native' = "firing"
    /\ UNCHANGED << hookVars, keyVars, extractVars, coord, nextId, tsfnQ,
                    req, aborted, ctl, pending, received, ovlCall, caretOf,
                    ovlAt, overlayVars, lifeVars, slotVars, svcVars,
                    councilVars >>

\* KeyboardHook::OnTypingPaused and main.cpp OnTypingPaused: an invalid
\* context is dropped; a valid one is queued on g_tsfn by NonBlockingCall,
\* which returns at once (the queue is unlimited).
\* Widths of the caret rectangle in the contexts handed over: the zero of a
\* caret range without extent, and a two-pixel caret.
CaretWidths == {0, 2}

\* data.caret of an event whose caret is valid.
CaretData(width) == [x |-> 500, y |-> 300, width |-> width, valid |-> TRUE]

\* main.js: const x = data.caret.x + (data.caret.width || 2); y = data.caret.y
MainOverlayAt(caret) ==
    [x |-> caret.x + (IF caret.width = 0 THEN 2 ELSE caret.width),
     y |-> caret.y]

\* GhostTextIntegration: const x = data.caret.x + (data.caret.width || 0);
IntegrationOverlayAt(caret) ==
    [x |-> caret.x + (IF caret.width = 0 THEN 0 ELSE caret.width),
     y |-> caret.y]

NativeOnTypingPaused(ctx) ==
    /\ c_native = "firing"
    /\ c_native' = "idle"
    /\ IF ctx = "invalid"
          THEN UNCHANGED << nextId, tsfnQ, caretOf >>
          ELSE /\ nextId' = nextId + 1
               /\ tsfnQ' = Append(tsfnQ, [id |-> nextId + 1, ctx |-> ctx])
               /\ \E w \in (IF ctx = "nocaret" THEN {0} ELSE CaretWidths) :
                     caretOf' = [caretOf EXCEPT ![nextId + 1] = w]
    /\ UNCHANGED << hookVars, keyVars, extractVars, coord, c_armed, req,
                    aborted, ctl, pending, received, ovlCall, ovlAt,
                    overlayVars, lifeVars, slotVars, svcVars, councilVars >>

\* A mutation of the abort: the previous request is left running.
KeepsPreviousRequest(c) == aborted

\* ghostTextAbortController.abort()
AbortController(c) == IF c = 0 THEN aborted ELSE [aborted EXCEPT ![c] = TRUE]

\* The finally block of onGhostTextCallback.
MainFinally(e) ==
    /\ pending' = FALSE
    /\ ctl' = IF ctl = e THEN 0 ELSE ctl
    /\ req' = [req EXCEPT ![e] = "done"]

\* main.js onGhostTextCallback up to `await fetch`: the event is taken from
\* the g_tsfn queue; too little text or an invalid caret hides the overlay and
\* returns; otherwise the pending request is aborted and a new one started.
MainReceive ==
    /\ coord = "main"
    /\ tsfnQ # << >>
    /\ LET ev == Head(tsfnQ) IN
         /\ tsfnQ' = Tail(tsfnQ)
         /\ received' = ev.id
         /\ IF ev.ctx # "ok"
               THEN /\ ovlCall' = [by |-> ev.id, kind |-> "hide"]
                    /\ req' = [req EXCEPT ![ev.id] = "rejected"]
                    /\ UNCHANGED << aborted, ctl, pending >>
               ELSE /\ aborted' = AbortController(ctl)
                    /\ ctl' = ev.id
                    /\ pending' = TRUE
                    /\ req' = [req EXCEPT ![ev.id] = "fetch"]
                    /\ UNCHANGED ovlCall
    /\ UNCHANGED << hookVars, keyVars, extractVars, coord, c_armed, c_native,
                    nextId, caretOf, ovlAt, overlayVars, lifeVars, slotVars,
                    svcVars, councilVars >>

\* `await fetch` settles: an aborted request rejects with AbortError; else the
\* response is ok, or has an error status, or the request failed.
MainFetchSettles(e, outcome) ==
    /\ coord = "main"
    /\ req[e] = "fetch"
    /\ IF aborted[e]
          THEN /\ MainFinally(e)
               /\ UNCHANGED ovlCall
          ELSE IF outcome = "ok"
                 THEN /\ req' = [req EXCEPT ![e] = "json"]
                      /\ UNCHANGED << ovlCall, pending, ctl >>
                 ELSE /\ ovlCall' = [by |-> e, kind |-> "hide"]
                      /\ MainFinally(e)
    /\ UNCHANGED << hookVars, keyVars, extractVars, coord, c_armed, c_native,
                    nextId, tsfnQ, aborted, received, caretOf, ovlAt,
                    overlayVars, lifeVars, slotVars, svcVars, councilVars >>

\* A coordinator that calls updateOverlay whatever the engine returned.
AlwaysUpdates(outcome) == "update"

\* main.js lines 201-221: a cleaned completion with content is shown with
\* updateOverlay; an empty or invalid one, and an error caught by the catch
\* block, call hideOverlay.
CallForCompletion(outcome) == IF outcome = "text" THEN "update" ELSE "hide"

\* `await response.json()` settles: an aborted request returns without
\* touching the overlay; else a usable completion is shown with
\* updateOverlay, and an empty or failed one hides the overlay.
MainJsonSettles(e, outcome) ==
    /\ coord = "main"
    /\ req[e] = "json"
    /\ MainFinally(e)
    /\ IF aborted[e]
          THEN UNCHANGED << ovlCall, ovlAt >>
          ELSE /\ ovlCall' = [by |-> e, kind |-> CallForCompletion(outcome)]
               /\ ovlAt' = IF outcome = "text"
                              THEN MainOverlayAt(CaretData(caretOf[e]))
                              ELSE ovlAt
    /\ UNCHANGED << hookVars, keyVars, extractVars, coord, c_armed, c_native,
                    nextId, tsfnQ, aborted, received, caretOf, overlayVars,
                    lifeVars, slotVars, svcVars, councilVars >>

\* GhostTextIntegration.onTypingPaused up to `await this.getCompletion`:
\* cancelCompletion (flag cleared, controller aborted, overlay hidden), then
\* validation, then the flag is set and getCompletion makes a new controller
\* and calls ollama.generate, which is not given the controller's signal.
IntegrationReceive ==
    /\ coord = "integration"
    /\ tsfnQ # << >>
    /\ LET ev == Head(tsfnQ) IN
         /\ tsfnQ' = Tail(tsfnQ)
         /\ received' = ev.id
         /\ aborted' = AbortController(ctl)
         /\ ovlCall' = [by |-> ev.id, kind |-> "hide"]
         /\ IF ev.ctx # "ok"
               THEN /\ pending' = FALSE
                    /\ ctl' = 0
                    /\ req' = [req EXCEPT ![ev.id] = "rejected"]
               ELSE /\ pending' = TRUE
                    /\ ctl' = ev.id
                    /\ req' = [req EXCEPT ![ev.id] = "gen"]
    /\ UNCHANGED << hookVars, keyVars, extractVars, coord, c_armed, c_native,
                    nextId, caretOf, ovlAt, overlayVars, lifeVars, slotVars,
                    svcVars, councilVars >>

\* `await this.getCompletion` settles: a completion is shown if
\* completionInProgress is set; the finally block clears the flag.
IntegrationSettles(e, outcome) ==
    /\ coord = "integration"
    /\ req[e] = "gen"
    /\ req' = [req EXCEPT ![e] = "done"]
    /\ pending' = FALSE
    /\ IF outcome = "text" /\ pending
          THEN /\ ovlCall' = [by |-> e, kind |-> "update"]
               /\ ovlAt' = IntegrationOverlayAt(CaretData(caretOf[e]))
          ELSE UNCHANGED << ovlCall, ovlAt >>
    /\ UNCHANGED << hookVars, keyVars, extractVars, coord, c_armed, c_native,
                    nextId, tsfnQ, aborted, ctl, received, caretOf,
                    overlayVars, lifeVars, slotVars, svcVars, councilVars >>

CoordInit ==
    /\ coord \in {"main", "integration"}
    /\ c_armed = FALSE
    /\ c_native = "idle"
    /\ nextId = 0
    /\ tsfnQ = << >>
    /\ req = [e \in Events |-> "none"]
    /\ aborted = [e \in Events |-> FALSE]
    /\ ctl = 0
    /\ pending = FALSE
    /\ received = 0
    /\ ovlCall = [by |-> 0, kind |-> "none"]
    /\ caretOf = [e \in Events |-> 0]
    /\ ovlAt = [x |-> 0, y |-> 0]

(* ------------------------------------------------------------------------ *)
(* OverlayWindow: the calls and the renderer thread                         *)
(* ------------------------------------------------------------------------ *)

\* Texts given to updateOverlay.
Texts == {"", "a", "b"}

\* OverlayWindow::m_running, set by the renderer thread while it pumps
\* messages.
OverlayRunning == ovlThread = "loop"

\* A mutation of the write: text already set is kept.
KeepsEarlierText(text) == IF m_text # "" THEN m_text ELSE text

\* m_text = text;
TextAfterUpdate(text) == text

\* main.cpp UpdateOverlay, line 173: if (!g_initialized || !g_overlayWindow)
\* return false.
OverlayUsable == g_initialized /\ g_overlayWindow

\* main.cpp UpdateOverlay -> OverlayWindow::UpdateText, first half.  Without
\* an initialized addon the call returns false.  UpdateText returns at once
\* unless m_running and m_hwnd are set; otherwise the text is written with
\* m_textMutex held.
UpdateOverlayWrite(text) ==
    /\ jsPc = "idle"
    /\ callerPc = "idle"
    /\ callCount < MaxCalls
    /\ IF ~OverlayUsable
          THEN /\ ovlResult' = "false"
               /\ callCount' = callCount + 1
               /\ UNCHANGED << m_text, writes, lastCall, jsPc, dropped >>
          ELSE /\ lastCall' = [kind |-> "update", text |-> text]
               /\ IF OverlayRunning /\ m_hwnd
                    THEN /\ m_text' = TextAfterUpdate(text)
                         /\ writes' = Append(writes, text)
                         /\ jsPc' = "post_update"
                         /\ UNCHANGED dropped
                    ELSE /\ jsPc' = "post_show"
                         /\ dropped' = TRUE
                         /\ UNCHANGED << m_text, writes >>
               /\ UNCHANGED << ovlResult, callCount >>
    /\ UNCHANGED << hookVars, keyVars, extractVars, coordVars, msgQ, rPc,
                    rText, m_visible, shown, painted, copyWrites,
                    paintedEarly, lastMsg, m_renderTarget, canCreate,
                    deviceLost, hideWrites, winOp, focusTaken, callerTouched,
                    m_initComplete, m_initSuccess, ovlShouldStop,
                    m_windowThreadId, m_hwnd, exStyle, held, success,
                    failedStep, slotVars, svcVars, councilVars >>

\* OverlayWindow::UpdateText, second half: WM_UPDATE_TEXT is posted.
UpdateOverlayPost ==
    /\ jsPc = "post_update"
    /\ msgQ' = Append(msgQ, "WM_UPDATE_TEXT")
    /\ jsPc' = "post_show"
    /\ UNCHANGED << hookVars, keyVars, extractVars, coordVars, m_text, rPc,
                    rText, m_visible, shown, painted, lastCall, callCount,
                    writes, copyWrites, paintedEarly, lastMsg,
                    m_renderTarget, canCreate, deviceLost, hideWrites, winOp,
                    focusTaken, callerTouched, lifeVars, slotVars, svcVars,
                    councilVars >>

\* OverlayWindow::Show: WM_SHOW_OVERLAY is posted if m_running is set;
\* UpdateOverlay returns true.
UpdateOverlayShow ==
    /\ jsPc = "post_show"
    /\ IF OverlayRunning
          THEN /\ msgQ' = Append(msgQ, "WM_SHOW_OVERLAY")
               /\ UNCHANGED dropped
          ELSE /\ dropped' = TRUE
               /\ UNCHANGED msgQ
    /\ ovlResult' = "true"
    /\ jsPc' = "idle"
    /\ callCount' = callCount + 1
    /\ UNCHANGED << hookVars, keyVars, extractVars, coordVars, m_text, rPc,
                    rText, m_visible, shown, painted, lastCall, writes,
                    copyWrites, paintedEarly, lastMsg, m_renderTarget,
                    canCreate, deviceLost, hideWrites, winOp, focusTaken,
                    callerTouched, m_initComplete, m_initSuccess,
                    ovlShouldStop, m_windowThreadId, m_hwnd, exStyle, held,
                    success, failedStep, slotVars, svcVars, councilVars >>

\* main.cpp HideOverlay -> OverlayWindow::Hide: with an overlay object whose
\* m_running is set WM_HIDE_OVERLAY is posted.
HideOverlay ==
    /\ jsPc = "idle"
    /\ callerPc = "idle"
    /\ callCount < MaxCalls
    /\ IF g_overlayWindow /\ OverlayRunning
          THEN /\ msgQ' = Append(msgQ, "WM_HIDE_OVERLAY")
               /\ UNCHANGED dropped
          ELSE /\ dropped' = (dropped \/ OverlayUsable)
               /\ UNCHANGED msgQ
    /\ lastCall' = [kind |-> "hide", text |-> ""]
    /\ callCount' = callCount + 1
    /\ UNCHANGED << hookVars, keyVars, extractVars, coordVars, m_text, rPc,
                    rText, m_visible, shown, painted, jsPc, writes,
                    copyWrites, paintedEarly, lastMsg, m_renderTarget,
                    canCreate, deviceLost, hideWrites, winOp, focusTaken,
                    callerTouched, m_initComplete, m_initSuccess,
                    ovlShouldStop, m_windowThreadId, m_hwnd, exStyle, held,
                    success, failedStep, ovlResult, slotVars, svcVars,
                    councilVars >>

\* A WM_SHOW_OVERLAY handler that shows the window whatever the text.
ShowsAlways(text) == TRUE

\* case WM_SHOW_OVERLAY: if (!self->m_text.empty())
ShowsWindow(text) == text # ""

\* UpdateText holds m_textMutex from its write of m_text, m_posX, m_posY and
\* m_fontSize until the lock_guard goes out of scope before PostMessageW.
TextMutexHeldByCaller == jsPc = "post_update"

\* What !self->m_text.empty() can yield in WM_SHOW_OVERLAY, which reads
\* m_text without m_textMutex: the emptiness of the text when no write is in
\* progress, either value while UpdateText is writing the string.
EmptinessRead ==
    IF TextMutexHeldByCaller THEN BOOLEAN ELSE {ShowsWindow(m_text)}

\* A WM_SHOW_OVERLAY handler that shows the window with SW_SHOW.
ShowCommandActivating == {"SW_SHOW"}

\* ShowWindow(hwnd, SW_SHOWNOACTIVATE) in WM_SHOW_OVERLAY.
ShowCommand == {"SW_SHOWNOACTIVATE"}

\* ShowWindow(hwnd, SW_HIDE) in WM_HIDE_OVERLAY.
HideCommand == {"SW_HIDE"}

\* SetWindowPos(m_hwnd, HWND_TOPMOST, ..., SWP_NOACTIVATE | SWP_SHOWWINDOW)
\* in Render.
PositionFlags == {"SWP_NOACTIVATE", "SWP_SHOWWINDOW"}

\* Win32: ShowWindow activates the window with SW_SHOW, SW_SHOWNORMAL,
\* SW_SHOWMAXIMIZED and SW_RESTORE; SetWindowPos activates it unless
\* SWP_NOACTIVATE is given.
Activates(flags) ==
    \/ flags \cap {"SW_SHOW", "SW_SHOWNORMAL", "SW_SHOWMAXIMIZED",
                   "SW_RESTORE"} # {}
    \/ "SWP_SHOWWINDOW" \in flags /\ "SWP_NOACTIVATE" \notin flags

\* A window call with the given flags is made.
WindowCall(flags) ==
    /\ winOp' = flags
    /\ focusTaken' = (focusTaken \/ Activates(flags))

\* The message pump takes the oldest posted message and WindowProc handles
\* it: WM_UPDATE_TEXT renders; WM_SHOW_OVERLAY shows the window and renders
\* if m_text (read without the mutex) is not empty; WM_HIDE_OVERLAY hides.
RendererGetMessage ==
    /\ rPc = "getmsg"
    /\ msgQ # << >>
    /\ msgQ' = Tail(msgQ)
    /\ lastMsg' = Head(msgQ)
    /\ CASE Head(msgQ) = "WM_UPDATE_TEXT" ->
              /\ rPc' = "render"
              /\ UNCHANGED << shown, m_visible, winOp, focusTaken >>
         [] Head(msgQ) = "WM_SHOW_OVERLAY" ->
              \E nonEmpty \in EmptinessRead :
              IF nonEmpty
                 THEN /\ shown' = TRUE
                      /\ WindowCall(ShowCommand)
                      /\ m_visible' = TRUE
                      /\ rPc' = "render"
                 ELSE UNCHANGED << shown, m_visible, rPc, winOp, focusTaken >>
         [] Head(msgQ) = "WM_HIDE_OVERLAY" ->
              /\ shown' = FALSE
              /\ WindowCall(HideCommand)
              /\ m_visible' = FALSE
              /\ UNCHANGED rPc
    /\ UNCHANGED << hookVars, keyVars, extractVars, coordVars, m_text, rText,
                    painted, jsPc, lastCall, callCount, writes, copyWrites,
                    paintedEarly, m_renderTarget, canCreate, deviceLost,
                    hideWrites, callerTouched, lifeVars, slotVars, svcVars,
                    councilVars >>

\* WM_PAINT for the shown window, delivered when no posted message waits:
\* OnPaint renders.
RendererWmPaint ==
    /\ rPc = "getmsg"
    /\ msgQ = << >>
    /\ shown
    /\ rPc' = "render"
    /\ UNCHANGED << hookVars, keyVars, extractVars, coordVars, m_text, msgQ,
                    rText, m_visible, shown, painted, jsPc, lastCall,
                    callCount, writes, copyWrites, paintedEarly, lastMsg,
                    m_renderTarget, canCreate, deviceLost, hideWrites, winOp,
                    focusTaken, callerTouched, lifeVars, slotVars, svcVars,
                    councilVars >>

\* OverlayWindow::Render, line 714: if (!m_renderTarget || !m_textFormat)
\* return; nothing is copied, hidden, drawn or recreated.
RenderSkip ==
    /\ rPc = "render"
    /\ ~m_renderTarget
    /\ rPc' = "getmsg"
    /\ UNCHANGED << hookVars, keyVars, extractVars, coordVars, m_text, msgQ,
                    rText, m_visible, shown, painted, jsPc, lastCall,
                    callCount, writes, copyWrites, paintedEarly, lastMsg,
                    m_renderTarget, canCreate, deviceLost, hideWrites, winOp,
                    focusTaken, callerTouched, lifeVars, slotVars, svcVars,
                    councilVars >>

\* OverlayWindow::Render, lines 715-726: with a render target, the shared
\* state is copied with m_textMutex held.
RenderCopy ==
    /\ rPc = "render"
    /\ m_renderTarget
    /\ ~TextMutexHeldByCaller
    /\ rText' = m_text
    /\ copyWrites' = Len(writes)
    /\ rPc' = "render_act"
    /\ UNCHANGED << hookVars, keyVars, extractVars, coordVars, m_text, msgQ,
                    m_visible, shown, painted, jsPc, lastCall, callCount,
                    writes, paintedEarly, lastMsg, m_renderTarget, canCreate,
                    deviceLost, hideWrites, winOp, focusTaken, callerTouched,
                    lifeVars, slotVars, svcVars, councilVars >>

\* OverlayWindow::Render, from line 728: an empty copy posts
\* WM_HIDE_OVERLAY; otherwise the window is placed with SWP_SHOWWINDOW and the
\* copied text is drawn.
RenderAct ==
    /\ rPc = "render_act"
    /\ rPc' = "getmsg"
    /\ IF rText = ""
          THEN /\ msgQ' = Append(msgQ, "WM_HIDE_OVERLAY")
               /\ hideWrites' = Len(writes)
               /\ UNCHANGED << shown, painted, paintedEarly, winOp,
                               focusTaken >>
          ELSE /\ shown' = TRUE
               /\ WindowCall(PositionFlags)
               /\ painted' = rText
               /\ paintedEarly' = (paintedEarly \/ callCount < 2)
               /\ UNCHANGED << msgQ, hideWrites >>
    /\ UNCHANGED << hookVars, keyVars, extractVars, coordVars, m_text, rText,
                    m_visible, jsPc, lastCall, callCount, writes, copyWrites,
                    lastMsg, m_renderTarget, canCreate, deviceLost,
                    callerTouched, lifeVars, slotVars, svcVars, councilVars >>

\* ReleaseDeviceResources(); CreateDeviceResources(); the render target
\* exists afterwards if CreateHwndRenderTarget succeeded.
Recreated(deviceOk) == deviceOk

\* OverlayWindow::Render with text to draw when EndDraw returns
\* D2DERR_RECREATE_TARGET: the window has been placed with SWP_SHOWWINDOW, the
\* frame is lost, the device resources are released and created anew; the
\* result of CreateDeviceResources is not looked at.
RenderDeviceLoss ==
    /\ rPc = "render_act"
    /\ rText # ""
    /\ rPc' = "getmsg"
    /\ shown' = TRUE
    /\ WindowCall(PositionFlags)
    /\ m_renderTarget' = Recreated(canCreate)
    /\ deviceLost' = TRUE
    /\ UNCHANGED << hookVars, keyVars, extractVars, coordVars, m_text, msgQ,
                    rText, m_visible, painted, jsPc, lastCall, callCount,
                    writes, copyWrites, paintedEarly, lastMsg, canCreate,
                    hideWrites, callerTouched, lifeVars, slotVars, svcVars,
                    councilVars >>

\* The display device goes away or comes back (driver reset, session
\* switch): resource creation fails while it is away.
DeviceChanges ==
    /\ canCreate' = ~canCreate
    /\ UNCHANGED << hookVars, keyVars, extractVars, coordVars, m_text, msgQ,
                    rPc, rText, m_visible, shown, painted, jsPc, lastCall,
                    callCount, writes, copyWrites, paintedEarly, lastMsg,
                    m_renderTarget, deviceLost, hideWrites, winOp,
                    focusTaken, callerTouched, lifeVars, slotVars, svcVars,
                    councilVars >>

\* OverlayWindow::SetTextColor and SetBackgroundColor, called on the
\* caller's thread: the colour is stored and, if the brush exists,
\* SetColor is called on it.
SetColor(brush) ==
    /\ jsPc = "idle"
    /\ callerPc = "idle"
    /\ callCount < MaxCalls
    /\ g_overlayWindow
    /\ callCount' = callCount + 1
    /\ callerTouched' = IF m_renderTarget THEN callerTouched \cup {brush}
                                          ELSE callerTouched
    /\ UNCHANGED << hookVars, keyVars, extractVars, coordVars, m_text, msgQ,
                    rPc, rText, m_visible, shown, painted, jsPc, lastCall,
                    writes, copyWrites, paintedEarly, lastMsg,
                    m_renderTarget, canCreate, deviceLost, hideWrites, winOp,
                    focusTaken, lifeVars, slotVars, svcVars, councilVars >>

\* OverlayWindow::SetFontName, called on the caller's thread: the name is
\* stored and UpdateTextFormat releases m_textFormat and, with a DirectWrite
\* factory, creates a new one.
SetFontName ==
    /\ jsPc = "idle"
    /\ callerPc = "idle"
    /\ callCount < MaxCalls
    /\ g_overlayWindow
    /\ callCount' = callCount + 1
    /\ callerTouched' = IF "textFormat" \in held \/ "dwriteFactory" \in held
                           THEN callerTouched \cup {"textFormat"}
                           ELSE callerTouched
    /\ UNCHANGED << hookVars, keyVars, extractVars, coordVars, m_text, msgQ,
                    rPc, rText, m_visible, shown, painted, jsPc, lastCall,
                    writes, copyWrites, paintedEarly, lastMsg,
                    m_renderTarget, canCreate, deviceLost, hideWrites, winOp,
                    focusTaken, lifeVars, slotVars, svcVars, councilVars >>

OverlayInit ==
    /\ m_text = ""
    /\ msgQ = << >>
    /\ rPc = "getmsg"
    /\ rText = ""
    /\ m_visible = FALSE
    /\ shown = FALSE
    /\ painted = "none"
    /\ jsPc = "idle"
    /\ lastCall = [kind |-> "none", text |-> ""]
    /\ callCount = 0
    /\ writes = << >>
    /\ copyWrites = 0
    /\ paintedEarly = FALSE
    /\ lastMsg = "none"
    /\ canCreate = TRUE
    /\ deviceLost = FALSE
    /\ hideWrites = 0
    /\ winOp = {}
    /\ focusTaken = FALSE
    /\ callerTouched = {}

(* ------------------------------------------------------------------------ *)
(* Spec: the state after initialize() has returned true                     *)
(* ------------------------------------------------------------------------ *)

\* main.cpp's globals and the KeyboardHook object outside a call: whether
\* g_initialized is set, and which of g_systemMonitor and g_overlayWindow
\* hold an object; the keyboard hook object exists once initialize() got
\* through, and the renderer thread runs exactly then.
AddonInit(initialized, monitor, overlay) ==
    /\ now = 0
    /\ m_running = FALSE
    /\ m_shouldStop = FALSE
    /\ m_debounceActive = FALSE
    /\ m_lastKeyTime = 0
    /\ m_hook = FALSE
    /\ m_hookThreadId = 0
    /\ hookQuit = FALSE
    /\ hookPc = "none"
    /\ dbPc = "none"
    /\ ctxValid = "none"
    /\ dbMutex = "free"
    /\ dbNotified = FALSE
    /\ dbDeadline = 0
    /\ callerPc = "idle"
    /\ callerOp = "none"
    /\ pollCount = 0
    /\ crashed = FALSE
    /\ g_initialized = initialized
    /\ g_keyboardHook = initialized
    /\ g_tsfn = FALSE
    /\ tsfnQueued = 0
    /\ g_overlayWindow = overlay
    /\ ovlThread = IF initialized THEN "loop" ELSE "none"
    /\ ovlQuit = FALSE
    /\ g_systemMonitor = monitor
    /\ lastResult = "none"
    /\ prevCall = "none"
    /\ firesSinceKey = 0
    /\ keySeen = FALSE
    /\ fireKeyTime = 0
    /\ staleWake = FALSE

HookInitWith(initialized) == AddonInit(initialized, initialized, initialized)

\* The state after initialize() returned true.
HookInit == HookInitWith(TRUE)


\* Steps of the program's own threads.
ThreadNext ==
    \/ \E ok \in BOOLEAN : HookInstall(ok)
    \/ HookLoop
    \/ HookGetQuit
    \/ HookUnhook
    \/ DbTop
    \/ DbWait1Pred
    \/ DbWait1Block
    \/ DbWait1Wake
    \/ DbAfterWait1
    \/ DbWait2Pred
    \/ DbWait2Block
    \/ DbWait2Wake
    \/ DbTimeout
    \/ \E o \in {"valid", "invalid", "throw"} : DbExtract(o)
    \/ \E o \in {"ok", "throw"} : DbCallback(o)
    \/ StartPoll
    \/ StartCheck
    \/ StartSetStop
    \/ StartJoin
    \/ StopSetFlag
    \/ StopDisarm
    \/ StopNotify
    \/ StopPostQuit
    \/ StopJoinHook
    \/ StopJoinDebounce
    \/ StopFinish
    \/ ShutdownDestroyOverlay
    \/ OvlThreadQuit
    \/ ShutdownFinish
    \/ TsfnDispatch

\* Steps of the environment: keys, the clock, and the calls the JavaScript
\* side makes.
EnvNext ==
    \/ \E vk \in KeyCodes, inj \in BOOLEAN : OnKeyPress(vk, inj)
    \/ Tick
    \/ StartMonitoring
    \/ StopMonitoring
    \/ Shutdown

Next == ThreadNext \/ EnvNext

Init ==
    /\ HookInit
    /\ keyPending = NoKey
    /\ ExtractInit
    /\ CoordInit
    /\ coord = "main"
    /\ OverlayInit
    /\ LifeInitWith(g_initialized)
    /\ SlotInit
    /\ SvcInitWith(TRUE)
    /\ CouncilInit

Spec == Init /\ [][Next]_vars

(* ------------------------------------------------------------------------ *)
(* SpecKeys: the monitor after startMonitoring() returned true, fed with     *)
(* key events                                                               *)
(* ------------------------------------------------------------------------ *)

\* Shift, Ctrl, Alt and their left/right variants (VK_SHIFT, VK_CONTROL,
\* VK_MENU, VK_LSHIFT .. VK_RMENU).
ModifierKeys == {16, 17, 18} \cup (160..165)

\* Page up/down, End, Home and the four arrows (VK_PRIOR .. VK_DOWN).
NavigationKeys == 33..40

\* VK_F1 .. VK_F24.
FunctionKeys == 112..135

\* 'A'..'Z', '0'..'9', space, enter, backspace, delete and tab.
LetterKeys == VK_A..VK_Z
DigitKeys == VK_0..VK_9
EditKeys == {VK_SPACE, VK_RETURN, VK_BACK, VK_DELETE, VK_TAB}

\* The punctuation keys of the main block: VK_OEM_1, VK_OEM_PLUS,
\* VK_OEM_COMMA, VK_OEM_MINUS, VK_OEM_PERIOD, VK_OEM_2, VK_OEM_3 and
\* VK_OEM_4 .. VK_OEM_7.
PunctuationKeys == (VK_OEM_1..192) \cup (219..222)

\* The key codes delivered in KBDLLHOOKSTRUCT::vkCode.
AllKeyCodes ==
    ModifierKeys \cup NavigationKeys \cup FunctionKeys \cup LetterKeys
        \cup DigitKeys \cup EditKeys \cup PunctuationKeys

\* The state StartMonitoring leaves when Start returned true: the hook is
\* installed, the hook thread pumps messages, the debounce thread starts.
InitKeys ==
    /\ now = 0
    /\ m_running = TRUE
    /\ m_shouldStop = FALSE
    /\ m_debounceActive = FALSE
    /\ m_lastKeyTime = 0
    /\ m_hook = TRUE
    /\ m_hookThreadId = 1
    /\ hookQuit = FALSE
    /\ hookPc = "getmsg"
    /\ dbPc = "top"
    /\ ctxValid = "none"
    /\ dbMutex = "free"
    /\ dbNotified = FALSE
    /\ dbDeadline = 0
    /\ callerPc = "idle"
    /\ callerOp = "none"
    /\ pollCount = 0
    /\ crashed = FALSE
    /\ g_initialized = TRUE
    /\ g_keyboardHook = TRUE
    /\ g_tsfn = TRUE
    /\ tsfnQueued = 0
    /\ g_overlayWindow = TRUE
    /\ ovlThread = "loop"
    /\ ovlQuit = FALSE
    /\ g_systemMonitor = TRUE
    /\ lastResult = "started"
    /\ prevCall = "none"
    /\ firesSinceKey = 0
    /\ keySeen = FALSE
    /\ fireKeyTime = 0
    /\ staleWake = FALSE
    /\ keyPending = NoKey
    /\ ExtractInit
    /\ CoordInit
    /\ coord = "main"
    /\ OverlayInit
    /\ LifeInitWith(g_initialized)
    /\ SlotInit
    /\ SvcInitWith(TRUE)
    /\ CouncilInit

NextKeys ==
    \/ \E vk \in AllKeyCodes, inj \in BOOLEAN : KeyArrives(vk, inj)
    \/ KeyHandled
    \/ KeyReturn
    \/ Tick
    \/ DbTop
    \/ DbWait1Pred
    \/ DbWait1Block
    \/ DbWait1Wake
    \/ DbAfterWait1
    \/ DbWait2Pred
    \/ DbWait2Block
    \/ DbWait2Wake
    \/ DbTimeout
    \/ \E o \in {"valid", "invalid"} : DbExtract(o)
    \/ \E o \in {"ok", "throw"} : DbCallback(o)
    \/ TsfnDispatch

SpecKeys == InitKeys /\ [][NextKeys]_vars

(* ------------------------------------------------------------------------ *)
(* SpecExtract: GetCurrentContext applied to the focused element            *)
(* ------------------------------------------------------------------------ *)

\* Before or after initialize(), with any element focused and no extraction
\* made yet.
InitExtract ==
    /\ \/ HookInitWith(TRUE) /\ (FocusedElement \/ NoElement)
       \/ HookInitWith(FALSE) /\ uia = NoUia
    /\ textContext = NoContext
    /\ ctxLen = 0
    /\ probe = "none"
    /\ keyPending = NoKey
    /\ CoordInit
    /\ coord = "main"
    /\ OverlayInit
    /\ LifeInitWith(g_initialized)
    /\ SlotInit
    /\ SvcInitWith(TRUE)
    /\ CouncilInit

NextExtract ==
    \/ \E contextLength \in 0..MaxLen : GetTextContext(contextLength)
    \/ OnTypingPausedExtract

SpecExtract == InitExtract /\ [][NextExtract]_vars

(* ------------------------------------------------------------------------ *)
(* SpecCoord: firings handed to the JavaScript coordinator                  *)
(* ------------------------------------------------------------------------ *)

InitCoord ==
    /\ HookInit
    /\ keyPending = NoKey
    /\ ExtractInit
    /\ CoordInit
    /\ OverlayInit
    /\ LifeInitWith(g_initialized)
    /\ SlotInit
    /\ SvcInitWith(TRUE)
    /\ CouncilInit

NextCoord ==
    \/ CoordKey
    \/ CoordPause
    \/ \E ctx \in CtxKinds : NativeOnTypingPaused(ctx)
    \/ MainReceive
    \/ \E e \in Events, o \in {"ok", "httperror", "neterror"} : MainFetchSettles(e, o)
    \/ \E e \in Events, o \in {"text", "empty", "error"} : MainJsonSettles(e, o)
    \/ IntegrationReceive
    \/ \E e \in Events, o \in {"text", "empty", "error"} : IntegrationSettles(e, o)

SpecCoord == InitCoord /\ [][NextCoord]_vars

(* ------------------------------------------------------------------------ *)
(* SpecOverlay: overlay calls against the renderer thread                   *)
(* ------------------------------------------------------------------------ *)

InitOverlay == Init

NextOverlay ==
    \/ \E text \in Texts : UpdateOverlayWrite(text)
    \/ UpdateOverlayPost
    \/ UpdateOverlayShow
    \/ HideOverlay
    \/ RendererGetMessage
    \/ RendererWmPaint
    \/ RenderCopy
    \/ RenderAct

SpecOverlay == InitOverlay /\ [][NextOverlay]_vars

(* ------------------------------------------------------------------------ *)
(* The overlay with a display device that can be lost                       *)
(* ------------------------------------------------------------------------ *)

InitDevice == Init

NextDevice ==
    \/ NextOverlay
    \/ RenderSkip
    \/ RenderDeviceLoss
    \/ DeviceChanges

SpecDevice == InitDevice /\ [][NextDevice]_vars


(* ------------------------------------------------------------------------ *)
(* SpecSetters: the overlay with its colour and font setters                *)
(* ------------------------------------------------------------------------ *)

InitSetters == Init

NextSetters ==
    \/ NextOverlay
    \/ \E brush \in {"textBrush", "backgroundBrush"} : SetColor(brush)
    \/ SetFontName

SpecSetters == InitSetters /\ [][NextSetters]_vars

(* ------------------------------------------------------------------------ *)
(* SpecSlot: objects of KeyboardHook are constructed, started, stopped and  *)
(* destroyed                                                                *)
(* ------------------------------------------------------------------------ *)

InitSlot == Init

NextSlot ==
    \E i \in Instances :
        \/ Construct(i)
        \/ Destruct(i)
        \/ InstanceStart(i)
        \/ InstanceStop(i)
        \/ InstanceKey(i)
        \/ InstanceFires(i)

SpecSlot == InitSlot /\ [][NextSlot]_vars

(* ------------------------------------------------------------------------ *)
(* SpecService: method calls on a GhostTextService                          *)
(* ------------------------------------------------------------------------ *)

InitService ==
    /\ HookInit
    /\ keyPending = NoKey
    /\ ExtractInit
    /\ CoordInit
    /\ coord = "main"
    /\ OverlayInit
    /\ LifeInitWith(g_initialized)
    /\ SlotInit
    /\ \E loaded \in BOOLEAN : SvcInitWith(loaded)
    /\ CouncilInit

NextService ==
    \/ \E o \in NativeOutcomes : SvcInitialize(o)
    \/ \E o \in NativeOutcomes : SvcStartMonitoring(o)
    \/ \E o \in NativeOutcomes : SvcStopMonitoring(o)
    \/ \E s \in NativeOutcomes, o \in NativeOutcomes : SvcShutdown(s, o)
    \/ \E op \in {"updateOverlay", "hideOverlay", "getTextContext"},
          o \in NativeOutcomes : SvcPassThrough(op, o)

SpecService == InitService /\ [][NextService]_vars

(* ------------------------------------------------------------------------ *)
(* SpecCouncil: processQuery, one query after the other                     *)
(* ------------------------------------------------------------------------ *)

InitCouncil == Init

NextCouncil ==
    \/ \E ok \in BOOLEAN : Phase1Ensure(ok)
    \/ \E ok \in BOOLEAN, tasks \in 0 .. MaxTasks : Phase1Chat(ok, tasks)
    \/ \E ok \in BOOLEAN : Phase2Unload(ok)
    \/ \E ok \in BOOLEAN : Phase2Ensure(ok)
    \/ LoopTop
    \/ \E response \in {"error", "tool_calls", "final"},
          calls \in 1 .. MaxToolCalls : LoopChat(response, calls)
    \/ \E ok \in BOOLEAN : LoopTool(ok)
    \/ TaskNext
    \/ \E ok \in BOOLEAN : Phase3Unload(ok)
    \/ \E ok \in BOOLEAN : Phase3Ensure(ok)
    \/ \E ok \in BOOLEAN : Phase3Chat(ok)

SpecCouncil == InitCouncil /\ [][NextCouncil]_vars

(* ------------------------------------------------------------------------ *)
(* SpecLife: the addon from before initialize() to after shutdown()         *)
(* ------------------------------------------------------------------------ *)

\* Nothing has been initialized.
InitLife ==
    /\ HookInitWith(FALSE)
    /\ keyPending = NoKey
    /\ ExtractInit
    /\ CoordInit
    /\ coord = "main"
    /\ OverlayInit
    /\ LifeInitWith(FALSE)
    /\ SlotInit
    /\ SvcInitWith(TRUE)
    /\ CouncilInit

\* initialize(), the renderer thread, the overlay calls and shutdown().  No
\* posted command is handled: what the renderer does with a command is the
\* subject of SpecOverlay.
NextLife ==
    \/ \E o \in {"com_fail", "monitor_fail", "proceed"} : NapiInitialize(o)
    \/ \E ok \in BOOLEAN : OvlThreadStart(ok)
    \/ \E o \in {"ok", "d2d_fail", "dwrite_fail"} : OvlInitializeD2D(o)
    \/ \E ok \in BOOLEAN : OvlRegisterWindowClass(ok)
    \/ \E o \in {"ok", "window_fail", "device_fail"} :
          OvlCreateOverlayWindow(o)
    \/ OvlSignalInit
    \/ OvlInitFailedExit
    \/ OvlSetRunning
    \/ InitializeWake
    \/ InitializeJoin
    \/ UpdateOverlayWrite("a")
    \/ UpdateOverlayPost
    \/ UpdateOverlayShow
    \/ HideOverlay
    \/ Shutdown
    \/ ShutdownDestroyOverlay
    \/ OvlThreadQuit
    \/ ShutdownFinish

SpecLife == InitLife /\ [][NextLife]_vars

(* ------------------------------------------------------------------------ *)
(* SpecGate: the calls that ask whether the addon is initialized            *)
(* ------------------------------------------------------------------------ *)

\* Context lengths given to getTextContext.
LifeContextLengths == {1, DEFAULT_CONTEXT_LENGTH}

\* The focused element: with or without a value, with or without a caret
\* the GUI thread reports.
LifeElement ==
    \E withText \in BOOLEAN, withCaret \in BOOLEAN :
        uia = [NoUia EXCEPT !.m_initialized = TRUE, !.focused = TRUE,
                            !.vp = withText,
                            !.valueLen = IF withText THEN 1 ELSE 0,
                            !.win32 = IF withCaret THEN "caret" ELSE "nofg"]

\* The addon between two calls: never initialized, after an initialize()
\* that failed at the system monitor or at the overlay window, or
\* initialized.
InitGate ==
    /\ \/ AddonInit(FALSE, FALSE, FALSE)
       \/ AddonInit(FALSE, TRUE, FALSE)
       \/ AddonInit(FALSE, TRUE, TRUE)
       \/ AddonInit(TRUE, TRUE, TRUE)
    /\ keyPending = NoKey
    /\ LifeElement
    /\ textContext = NoContext
    /\ ctxLen = 0
    /\ probe = "none"
    /\ CoordInit
    /\ coord = "main"
    /\ OverlayInit
    /\ LifeInitWith(g_initialized)
    /\ SlotInit
    /\ SvcInitWith(TRUE)
    /\ CouncilInit

\* startMonitoring with the threads it starts, updateOverlay, hideOverlay,
\* getTextContext and shutdown().  No key is pressed.
NextGate ==
    \/ UpdateOverlayWrite("a")
    \/ UpdateOverlayPost
    \/ UpdateOverlayShow
    \/ HideOverlay
    \/ \E n \in LifeContextLengths : GetTextContext(n)
    \/ StartMonitoring
    \/ \E ok \in BOOLEAN : HookInstall(ok)
    \/ HookLoop
    \/ HookGetQuit
    \/ HookUnhook
    \/ DbTop
    \/ DbWait1Pred
    \/ DbWait1Block
    \/ DbWait1Wake
    \/ DbAfterWait1
    \/ StartPoll
    \/ StartCheck
    \/ StartSetStop
    \/ StartJoin
    \/ Shutdown
    \/ StopSetFlag
    \/ StopDisarm
    \/ StopNotify
    \/ StopPostQuit
    \/ StopJoinHook
    \/ StopJoinDebounce
    \/ StopFinish
    \/ ShutdownDestroyOverlay
    \/ OvlThreadQuit
    \/ ShutdownFinish

SpecGate == InitGate /\ [][NextGate]_vars
(* ------------------------------------------------------------------------ *)
(* Properties of Spec                                                       *)
(* ------------------------------------------------------------------------ *)

\* A qualifying key-down event is handled (ResetDebounceTimer runs).
QualifyingKeyStep == \E vk \in KeyCodes : IsTypingKey(vk) /\ OnKeyPress(vk, FALSE)

\* The debounce thread decides to fire.
FireStep == dbPc = "timeout" /\ dbPc' = "fire"

\* The debounce thread runs its deadline check (lines 160-173).
DeadlineCheckStep == dbPc = "timeout" /\ dbPc' # "timeout"

\* A qualifying key arrives after a quiet period of at least DebounceMs since
\* the previous qualifying key, with monitoring running undisturbed.
NewBurstKey ==
    /\ QualifyingKeyStep
    /\ keySeen
    /\ callerPc = "idle"
    /\ now - m_lastKeyTime >= DebounceMs

\* C1, as stated: every burst that is followed by a quiet period of at least
\* DebounceMs has produced exactly one firing; so when the next burst begins,
\* exactly one firing has happened since the last key of the previous one.
C1_ExactlyOneFiringPerBurst == [][NewBurstKey => firesSinceKey = 1]_vars

\* C1, as the code has it: after the last qualifying key there is at most one
\* firing; a deadline check that runs DebounceMs or more after the last key,
\* with the timer armed and no stop signalled, fires and disarms the timer; a
\* firing is never decided, and the context never extracted or handed to the
\* callback, before (last key) + DebounceMs.  A key that arrives before the
\* deadline check runs, even after the quiet period, joins the burst.
C1_OneFiringAfterQuiet ==
    [][ /\ firesSinceKey' <= 1
        /\ (FireStep => /\ now >= m_lastKeyTime + DebounceMs
                        /\ firesSinceKey = 0
                        /\ ~m_debounceActive')
        /\ (DeadlineCheckStep /\ m_debounceActive /\ ~m_shouldStop
              /\ now >= m_lastKeyTime + DebounceMs => FireStep)
        /\ (dbPc' \in {"fire", "cb"} => now' >= fireKeyTime' + DebounceMs)
      ]_vars

\* A burst of several keys got its one firing exactly DebounceMs after its
\* last key, after the thread had woken at a superseded deadline.
C1_Witness ==
    /\ dbPc = "cb"
    /\ staleWake
    /\ firesSinceKey = 1
    /\ fireKeyTime > 0
    /\ now = fireKeyTime + DebounceMs

\* C2: a qualifying key at time k arms the timer if idle and sets the deadline
\* (m_lastKeyTime + DebounceMs) to k + DebounceMs; the deadline the thread
\* computes is the one of the latest key; and a deadline check that runs at a
\* superseded deadline, before k + DebounceMs, does not fire: the timer stays
\* armed and the thread goes back to wait for the new deadline.
C2_KeyMovesDeadline ==
    [][ /\ (QualifyingKeyStep => /\ m_debounceActive'
                                 /\ m_lastKeyTime' = now)
        /\ (dbPc = "post_w1" /\ dbPc' = "w2_pred"
              => dbDeadline' = m_lastKeyTime + DebounceMs)
        /\ (DeadlineCheckStep /\ now < m_lastKeyTime + DebounceMs
              => /\ ~FireStep
                 /\ dbPc' = "top"
                 /\ UNCHANGED m_debounceActive)
      ]_vars

\* The thread woke at a superseded deadline without firing and now waits for
\* the deadline of the latest key, the timer still armed.
C2_Witness ==
    /\ staleWake
    /\ m_debounceActive
    /\ firesSinceKey = 0
    /\ dbPc = "w2_wait"
    /\ dbDeadline = m_lastKeyTime + DebounceMs
    /\ now < dbDeadline

\* C4: a call of stop() always returns, and when it has returned the listener
\* is uninstalled and both threads have exited.  Inside Stop some thread of
\* the program can always take a step, or the debounce thread sleeps towards a
\* deadline that the clock will reach.
C4_StopReturns ==
    /\ (callerPc \in StopPcs /\ ~crashed
          => \/ ENABLED ThreadNext
             \/ (dbPc = "w2_wait" /\ now < dbDeadline))
    /\ (callerPc = "idle" /\ lastResult \in {"stopped", "shutdown"}
          => ~m_hook /\ hookPc = "none" /\ dbPc = "none")

\* C8: a failure raised during a firing, by the extractor or by the callback,
\* is caught inside the firing: the step leaves the process alive and the
\* debounce thread running.
C8_FailureIsCaught ==
    [][ (dbPc = "fire" \/ dbPc = "cb")
          => (~crashed' /\ dbPc' \in {"fire", "cb", "top"}) ]_vars

\* C9: start() always returns (inside Start some thread of the program can
\* always take a step); it returns failure when the listener cannot be
\* installed or readiness was not signalled; and after a failure no hook
\* thread, no debounce thread and no listener is left.
C9_StartReturns ==
    /\ (callerPc \in StartPcs /\ ~crashed => ENABLED ThreadNext)
    /\ (callerPc = "idle" /\ lastResult = "error"
          => ~m_hook /\ ~m_running /\ hookPc = "none" /\ dbPc = "none")

\* The state of the native side that a call can change.
nativeState == << m_running, m_shouldStop, m_debounceActive, m_lastKeyTime,
                  m_hook, m_hookThreadId, hookQuit, hookPc, dbPc, dbMutex,
                  dbNotified, g_initialized, g_keyboardHook, g_tsfn, tsfnQueued,
                  g_overlayWindow, ovlThread, ovlQuit, g_systemMonitor >>

\* No hook, debounce or renderer thread exists.
NoThreads ==
    /\ hookPc = "none"
    /\ dbPc = "none"
    /\ ~m_hook
    /\ (lastResult = "shutdown" => ovlThread = "none")

\* C10: stopMonitoring() called right after stopMonitoring() returned, or
\* shutdown() right after shutdown(), raises no error and returns at once
\* without changing any state; after it no hook or debounce thread exists,
\* and after shutdown no renderer thread either (the renderer thread belongs
\* to the overlay, which lives from initialize() to shutdown()).
C10_SecondCallIsNoOp ==
    [][ /\ (callerPc = "idle" /\ lastResult = "stopped" /\ StopMonitoring
              => /\ callerPc' = "idle"
                 /\ lastResult' = "stopped"
                 /\ UNCHANGED nativeState
                 /\ NoThreads')
        /\ (callerPc = "idle" /\ lastResult = "shutdown" /\ Shutdown
              => /\ callerPc' = "idle"
                 /\ lastResult' = "shutdown"
                 /\ UNCHANGED nativeState
                 /\ NoThreads')
      ]_vars

\* stopMonitoring() has returned twice in a row after a monitoring session in
\* which keys arrived, one of them after Stop had cleared the armed flag.
C10_Witness ==
    /\ callerPc = "idle"
    /\ lastResult = "stopped"
    /\ prevCall = "stopped"
    /\ keySeen
    /\ m_debounceActive


\* The scenario of C13 on the model's clock, where DebounceMs ticks stand for
\* the 300 ms: the first qualifying key was handled at 0 and the next one is
\* handled after the first deadline and before twice the period (the key at
\* t=350), with monitoring running undisturbed.
SecondKeyStep ==
    /\ QualifyingKeyStep
    /\ keySeen
    /\ callerPc = "idle"
    /\ m_lastKeyTime = 0
    /\ now > DebounceMs
    /\ now < 2 * DebounceMs

\* C13, as stated: the second key moves the deadline to its own time plus
\* DebounceMs and no firing has occurred for the first key.
C13_NoFiringBeforeSecondKey ==
    [][ SecondKeyStep => /\ m_lastKeyTime' + DebounceMs = now + DebounceMs
                         /\ m_debounceActive'
                         /\ firesSinceKey = 0 ]_vars

\* C13, as the code has it: the second key arrives after the deadline of the
\* first.  A deadline check that runs for the first key at or after its
\* deadline fires, and never before it, so at most one firing precedes the
\* second key; the second key arms the timer again for its own time plus
\* DebounceMs, the thread waits for that deadline, and the next firing is
\* not decided before it.
C13_FiresThenRearms ==
    [][ /\ (SecondKeyStep => /\ firesSinceKey <= 1
                              /\ m_lastKeyTime' = now
                              /\ m_debounceActive'
                              /\ firesSinceKey' = 0)
        /\ (DeadlineCheckStep /\ keySeen /\ m_lastKeyTime = 0
              /\ m_debounceActive /\ ~m_shouldStop
              => (FireStep <=> now >= DebounceMs))
        /\ (dbPc = "post_w1" /\ dbPc' = "w2_pred" /\ m_lastKeyTime > DebounceMs
              => dbDeadline' = m_lastKeyTime + DebounceMs)
        /\ (FireStep /\ m_lastKeyTime > DebounceMs
              => now >= m_lastKeyTime + DebounceMs)
      ]_vars

\* The first key at 0 has produced its firing, the second key was handled
\* after the first deadline, and the thread waits for the new deadline.
C13_Witness ==
    /\ keySeen
    /\ fireKeyTime = 0
    /\ tsfnQueued >= 1
    /\ firesSinceKey = 0
    /\ m_lastKeyTime > DebounceMs
    /\ m_lastKeyTime < 2 * DebounceMs
    /\ m_debounceActive
    /\ dbPc = "w2_wait"
    /\ dbDeadline = m_lastKeyTime + DebounceMs

\* The debounce thread is inside OnTypingPaused: extracting the context or
\* running the callback.
InCallback == dbPc = "fire" \/ dbPc = "cb"

\* C29: a qualifying key that arrives while the debounce thread is inside
\* OnTypingPaused sets m_lastKeyTime to its own time and arms the timer, and
\* leaves the debounce thread where it is; OnTypingPaused is entered only
\* from the deadline check, never while an earlier invocation is still
\* running, and not before DebounceMs have passed since the last key.
C29_CallbacksNeverOverlap ==
    [][ /\ (QualifyingKeyStep /\ InCallback)
              => /\ m_lastKeyTime' = now
                 /\ m_debounceActive'
                 /\ dbPc' = dbPc
        /\ (dbPc' = "fire" /\ dbPc # "fire")
              => /\ ~InCallback
                 /\ dbPc = "timeout"
                 /\ now >= m_lastKeyTime + DebounceMs
                 /\ ~m_debounceActive'
        /\ (dbPc' = "cb" /\ dbPc # "cb") => dbPc = "fire" ]_vars

\* The callback for an earlier key is running while a later qualifying key
\* has advanced m_lastKeyTime and armed the timer again.
C29_Witness ==
    /\ dbPc = "cb"
    /\ m_debounceActive
    /\ m_lastKeyTime > fireKeyTime
    /\ ~crashed

\* Stop's write of m_debounceActive (KeyboardHook::Stop, line 65).
StopWriteStep == callerPc = "stop_l65" /\ callerPc' = "stop_l66"

\* C33: every write of the debounce state is made by the holder of
\* m_debounceMutex, so stop() never writes m_debounceActive while the
\* debounce thread holds the mutex; and only a keystroke arms the timer or
\* moves m_lastKeyTime.
C33_DebounceStateUnderMutex ==
    [][ /\ StopWriteStep => dbMutex = "free"
        /\ (  (~m_debounceActive /\ m_debounceActive')
           \/ m_lastKeyTime' # m_lastKeyTime ) => QualifyingKeyStep ]_vars

\* shutdown() has got past the join of the hook thread.
ListenerStopped ==
    /\ callerOp = "shutdown"
    /\ callerPc \in {"stop_l78", "stop_l82"} \cup ShutdownPcs

\* C34: shutdown() joins the hook thread before the debounce thread, destroys
\* the renderer only after both are joined and releases the extractor only
\* together with or after the renderer; no firing starts once the hook thread
\* is joined, and while the renderer or the extractor is being released the
\* debounce thread does not exist.
C34_ShutdownOrder ==
    /\ [](ListenerStopped => hookPc = "none")
    /\ [](callerPc \in ShutdownPcs => dbPc = "none")
    /\ [][ /\ FireStep => ~ListenerStopped
           /\ (g_systemMonitor /\ ~g_systemMonitor')
                 => dbPc = "none" /\ hookPc = "none" /\ ~g_overlayWindow' ]_vars

\* shutdown() reaches the renderer's destruction after a firing happened.
C34_Witness ==
    /\ callerPc = "shut_destroy"
    /\ keySeen
    /\ firesSinceKey > 0

\* The callback is invoked (m_typingPausedCallback(ctx) runs).
CallbackStep == dbPc = "cb" /\ dbPc' = "top"

\* C36: the callback is invoked only with a valid context; an extraction
\* that gives an invalid context ends the firing without a callback and
\* without an error, and the debounce thread is back at the top of its loop.
C36_InvalidContextDropped ==
    [][ /\ CallbackStep => ctxValid = "valid"
        /\ DbExtract("invalid")
              => dbPc' = "top" /\ ~crashed' /\ tsfnQueued' = tsfnQueued ]_vars

\* An invalid extraction has ended a firing: the thread is at the top of its
\* loop and nothing was queued for the callback.
C36_Witness ==
    /\ dbPc = "top"
    /\ ctxValid = "invalid"
    /\ ~crashed
    /\ g_tsfn
    /\ tsfnQueued = 0

\* The JavaScript callback receives a typing-paused event.
DispatchStep == tsfnQueued' = tsfnQueued - 1

\* C37: while the last native call that returned is stopMonitoring(), the
\* callback receives no typing-paused event.
C37_NoEventAfterStop ==
    [][ DispatchStep => lastResult # "stopped" ]_vars
(* ------------------------------------------------------------------------ *)
(* Claims about key classification (SpecKeys)                                *)
(* ------------------------------------------------------------------------ *)

\* LowLevelKeyboardProc has run OnKeyPress for the delivered event.
KeyHandledStep == ~keyPending.done /\ keyPending'.done

\* C11: a key event flagged as injected, whatever its key code, leaves
\* m_lastKeyTime and m_debounceActive unchanged (and notifies nobody), and as
\* long as no other kind of event has been handled the debounce thread never
\* decides a firing and no callback is queued.
C11_InjectedKeyIgnored ==
    [][ /\ (KeyHandledStep /\ keyPending.injected)
            => UNCHANGED << m_lastKeyTime, m_debounceActive, dbNotified, keySeen >>
        /\ (~keySeen')
            => (dbPc' # "fire" /\ dbPc' # "cb" /\ tsfnQueued' = 0
                  /\ ~m_debounceActive') ]_vars

\* An injected event with a typing key code has been handled at a time when
\* its code would otherwise have armed the idle timer.
C11_Witness ==
    /\ keyPending.done
    /\ keyPending.injected
    /\ IsTypingKey(keyPending.vkCode)
    /\ ~keySeen
    /\ ~m_debounceActive
    /\ now > 0

\* The key codes the classification must reject and those it must accept.
NonTypingClass == ModifierKeys \cup NavigationKeys \cup FunctionKeys
TypingClass == LetterKeys \cup DigitKeys \cup EditKeys \cup PunctuationKeys

\* C12: every modifier, navigation or function key is classified as
\* non-typing and its key event leaves m_lastKeyTime and m_debounceActive
\* unchanged; every letter, digit, space, enter, backspace, delete, tab and
\* punctuation key is classified as a typing key, so that its event, when
\* not injected, records the time and arms the timer.
C12_KeyClassification ==
    [][ KeyHandledStep =>
          /\ (keyPending.vkCode \in NonTypingClass)
                => /\ ~IsTypingKey(keyPending.vkCode)
                   /\ UNCHANGED << m_lastKeyTime, m_debounceActive, dbNotified >>
          /\ (keyPending.vkCode \in TypingClass)
                => /\ IsTypingKey(keyPending.vkCode)
                   /\ (~keyPending.injected)
                         => (m_lastKeyTime' = now /\ m_debounceActive') ]_vars

\* A hardware modifier key has been handled while the timer was armed for an
\* earlier typing key, whose time is still the recorded one.
C12_Witness ==
    /\ keyPending.done
    /\ ~keyPending.injected
    /\ keyPending.vkCode \in ModifierKeys
    /\ keySeen
    /\ m_debounceActive
    /\ m_lastKeyTime < now

(* ------------------------------------------------------------------------ *)
(* Properties of SpecCoord                                                  *)
(* ------------------------------------------------------------------------ *)

\* Completion requests that are in flight and not aborted.
LiveRequests == {e \in Events : req[e] \in InFlight /\ ~aborted[e]}

\* Firings that some stage of the pipeline is working on: the native
\* callback, the hand-off queue, a completion request that was not aborted.
InPipeline ==
    (IF c_native = "firing" THEN 1 ELSE 0) + Len(tsfnQ) + Cardinality(LiveRequests)

\* C3, as stated: at most one firing is in the pipeline at a time; a key that
\* arrives while a firing is being processed never leads to a second firing
\* being queued or processed beside it.
C3_OneFiringInPipeline == InPipeline <= 1

\* C3, as the code has it: the debounce thread works on one firing at a time
\* and a key that arrives meanwhile only arms the timer; the hand-off does
\* not wait for the coordinator, so later firings can be queued and received
\* while a completion request is in flight, and then main.js keeps at most
\* one request that is not aborted, the one of its current AbortController.
C3_OneLiveRequest ==
    [][ /\ (coord = "main" => /\ Cardinality(LiveRequests') <= 1
                              /\ LiveRequests' \subseteq {ctl'})
        /\ (c_native = "firing" /\ c_armed' /\ ~c_armed
              => UNCHANGED << c_native, nextId, tsfnQ, req, received >>)
        /\ (nextId' # nextId => c_native = "firing" /\ c_native' = "idle")
      ]_vars

\* A key arrived while a firing was in the native callback, with an aborted
\* request still in flight beside the live one.
C3_Witness ==
    /\ coord = "main"
    /\ c_native = "firing"
    /\ c_armed
    /\ \E e1, e2 \in Events :
         /\ e1 < e2
         /\ req[e1] \in InFlight /\ aborted[e1]
         /\ req[e2] \in InFlight /\ ~aborted[e2]

\* C5: once a newer event has been received, a completion requested for an
\* older event never updates the overlay: every updateOverlay call is made
\* for the newest event received.
C5_OlderNeverUpdates ==
    [][ovlCall' # ovlCall /\ ovlCall'.kind = "update" => ovlCall'.by = received']_vars


\* C20: an overlay update made for a suggestion is placed at x = caret.x +
\* caret.width and y = caret.y of the context the suggestion was requested
\* for, whatever the caret width, zero included.
C20_OverlayAfterCaret ==
    ovlCall.kind = "update"
        => ovlAt = [x |-> CaretData(caretOf[ovlCall.by]).x + caretOf[ovlCall.by],
                    y |-> CaretData(caretOf[ovlCall.by]).y]

\* The request of event e settles with the engine giving no usable
\* suggestion: an error status, a failed request, an empty completion or an
\* unreadable body.
SettlesWithoutSuggestion(e) ==
    \/ MainFetchSettles(e, "httperror")
    \/ MainFetchSettles(e, "neterror")
    \/ MainJsonSettles(e, "empty")
    \/ MainJsonSettles(e, "error")

\* C21 (main.js coordinator): updateOverlay is called only when the request
\* of an event with a valid context settles with a suggestion; an event whose
\* context is insufficient, and a request that was not aborted and settles
\* without a suggestion, call hideOverlay, and the callback completes (the
\* request is done) instead of raising.
C21_ShowsOnlySuggestions ==
    [][ coord = "main" =>
          /\ (ovlCall' # ovlCall /\ ovlCall'.kind = "update"
                => \E e \in Events :
                      /\ req[e] = "json"
                      /\ ~aborted[e]
                      /\ MainJsonSettles(e, "text")
                      /\ ovlCall'.by = e)
          /\ \A e \in Events :
                (~aborted[e] /\ SettlesWithoutSuggestion(e))
                    => /\ ovlCall' = [by |-> e, kind |-> "hide"]
                       /\ req'[e] = "done"
                       /\ ~pending'
          /\ (tsfnQ # << >> /\ tsfnQ' = Tail(tsfnQ) /\ Head(tsfnQ).ctx # "ok"
                => /\ ovlCall' = [by |-> Head(tsfnQ).id, kind |-> "hide"]
                   /\ req'[Head(tsfnQ).id] = "rejected")
      ]_vars

\* A request that was not aborted has settled without a suggestion after an
\* earlier one had shown its suggestion, and the overlay was hidden for it.
C21_Witness ==
    /\ coord = "main"
    /\ \E e1, e2 \in Events :
         /\ e1 < e2
         /\ req[e1] = "done" /\ ~aborted[e1]
         /\ req[e2] = "done" /\ ~aborted[e2]
         /\ ovlAt.x > 0
         /\ ovlCall = [by |-> e2, kind |-> "hide"]
(* ------------------------------------------------------------------------ *)
(* Claims about the context extractor (SpecExtract)                          *)
(* ------------------------------------------------------------------------ *)

\* GetCurrentContext has been called and textContext holds what it returned.
Extracted == probe # "none" /\ g_initialized /\ g_systemMonitor

\* The call got past the early returns.
ElementExamined == Extracted /\ uia.m_initialized /\ uia.focused

\* C14: every TextContext returned by GetCurrentContext, the ones of the
\* early returns included, has valid = (text non-empty or caret.valid).
C14_ValidIffTextOrCaret ==
    textContext.valid = (textContext.text # << >> \/ textContext.caret.valid)

\* A context with a positioned caret and no text is valid, and the early
\* return for a missing focused element has produced an invalid, empty one
\* although a caret could have been read.
C14_Witness ==
    /\ Extracted
    /\ \/ /\ ElementExamined
          /\ textContext.text = << >>
          /\ textContext.caret.valid
          /\ textContext.valid
       \/ /\ ~uia.focused
          /\ uia.win32 = "caret"
          /\ ~textContext.valid
          /\ ~textContext.caret.valid

\* What each text strategy yields on its own for the examined element.
YieldCaretRange ==
    IF CaretRangeActive(uia) THEN TextFromCaretRange(uia, ctxLen) ELSE << >>
YieldTextRange ==
    IF ~uia.tp1 THEN << >>
    ELSE IF uia.hasSel THEN TextFromSelection(uia, ctxLen)
    ELSE TextFromDocument(uia, ctxLen)
YieldValue == IF uia.vp THEN Trailing(ValueText(uia), ctxLen) ELSE << >>
YieldName == Trailing(NameText(uia), ctxLen)

\* C15: the returned text is the text of the first of the strategies caret
\* range, text range, value, name that yields non-empty text, and is empty
\* only if none of them does.
C15_FirstNonEmptyWins ==
    ElementExamined =>
        textContext.text =
            IF YieldCaretRange # << >> THEN YieldCaretRange
            ELSE IF YieldTextRange # << >> THEN YieldTextRange
            ELSE IF YieldValue # << >> THEN YieldValue
            ELSE YieldName

\* C16: when the caret range of the rich interface is unavailable or inactive
\* and the plain text-range interface yields non-empty text, the extraction
\* returns that text, taken from the selection or the document, and
\* getTextContext returns the context object rather than null.
C16_FallsBackToTextRange ==
    (ElementExamined /\ ~CaretRangeActive(uia) /\ YieldTextRange # << >>)
        => /\ textContext.text = YieldTextRange
           /\ (textContext.source = "selection"
                 \/ textContext.source = "document")
           /\ (probe = "object" \/ probe = "callback")

\* getTextContext returned the document text of an element without the rich
\* interface although the element also has a non-empty value and name.
C16_Witness ==
    /\ probe = "object"
    /\ ~uia.tp2
    /\ uia.tp1
    /\ uia.valueLen > 0
    /\ uia.nameLen > 0
    /\ textContext.source = "document"
    /\ textContext.text # << >>

\* The last n characters of s, all of s if it is shorter.
LastChars(s, n) ==
    [i \in 1..Min(n, Len(s)) |-> s[Len(s) - Min(n, Len(s)) + i]]

\* C17: for contextLength > 0, a text taken from the document when there is
\* no selection is the trailing contextLength characters of the document,
\* and a text taken from the value is the trailing contextLength characters
\* of the value.
C17_TrailingCharacters ==
    (ElementExamined /\ ctxLen > 0) =>
        /\ (textContext.source = "document" /\ ~uia.hasSel
              => textContext.text = LastChars(DocText(uia), ctxLen))
        /\ (textContext.source = "value"
              => textContext.text = LastChars(ValueText(uia), ctxLen))

\* C18: whichever strategy supplies it, the returned text has at most
\* contextLength characters.
C18_AtMostMaxChars == Extracted => Len(textContext.text) <= ctxLen

\* C19: the caret comes from the first source that succeeds among the
\* bounding rectangle of the caret range (at least 4 components), the caret
\* rectangle of the foreground thread in screen coordinates, and the mouse
\* cursor with a 1x16 box; it is invalid only if all three fail.
C19_FirstCaretSourceWins ==
    ElementExamined =>
        IF CaretRangeActive(uia) /\ uia.rectLen >= 4
           THEN /\ textContext.caret.source = "rich"
                /\ textContext.caret.valid
        ELSE IF uia.win32 = "caret"
           THEN /\ textContext.caret.source = "win32"
                /\ textContext.caret.valid
                /\ textContext.caret.x = RcCaret.left + ClientOrigin.x
                /\ textContext.caret.y = RcCaret.top + ClientOrigin.y
        ELSE IF uia.cursorOk
           THEN /\ textContext.caret.source = "cursor"
                /\ textContext.caret.valid
                /\ textContext.caret.x = CursorPos.x
                /\ textContext.caret.y = CursorPos.y
                /\ textContext.caret.width = 1
                /\ textContext.caret.height = 16
        ELSE ~textContext.caret.valid

(* ------------------------------------------------------------------------ *)
(* Properties of SpecOverlay                                                *)
(* ------------------------------------------------------------------------ *)

\* Every call has returned and every posted message has been handled.
Quiescent == jsPc = "idle" /\ msgQ = << >> /\ rPc = "getmsg"

\* C6: once every posted command has been processed the overlay shows the
\* state of the call issued last: shown with its text after an updateOverlay
\* with text, hidden after hideOverlay or an updateOverlay with empty text.
C6_LastCallWins ==
    Quiescent =>
        IF lastCall.kind = "update" /\ lastCall.text # ""
           THEN shown /\ painted = lastCall.text
           ELSE ~shown

\* The renderer draws (the second half of Render with text to draw).
PaintStep == rPc = "render_act" /\ rText # "" /\ rPc' = "getmsg"

\* Two updateOverlay calls with different text have returned, no third call
\* was made, and no paint happened before both had returned.
TwoCallsBeforePaint ==
    /\ Len(writes) = 2
    /\ writes[1] # writes[2]
    /\ callCount = 2
    /\ jsPc = "idle"
    /\ ~paintedEarly

\* C7, as stated: after two updateOverlay calls with different text issued
\* before the renderer has painted, every paint paints the second text.
C7_OnlySecondTextPainted ==
    [][PaintStep /\ TwoCallsBeforePaint => painted' = writes[2]]_vars

\* C7, as the code has it: a paint draws the text of the latest updateOverlay
\* call made before Render took its copy of the shared state; so of two calls
\* that both wrote before the copy, only the second text is painted.
C7_PaintsLatestAtCopy ==
    [][ /\ (PaintStep => /\ copyWrites >= 1
                         /\ painted' = writes[copyWrites])
        /\ (rPc = "render" /\ rPc' = "render_act"
              => /\ copyWrites' = Len(writes)
                 /\ (Len(writes) >= 1 => rText' = writes[Len(writes)]))
      ]_vars

\* Two calls with different texts were made before any paint and the paint
\* that followed drew the second text.
C7_Witness ==
    /\ TwoCallsBeforePaint
    /\ writes[1] # "" /\ writes[2] # ""
    /\ copyWrites = 2
    /\ painted = writes[2]


\* WindowProc handles a posted WM_SHOW_OVERLAY.
ShowCommandStep ==
    /\ rPc = "getmsg"
    /\ msgQ # << >>
    /\ Head(msgQ) = "WM_SHOW_OVERLAY"
    /\ msgQ' = Tail(msgQ)

\* C22: a show command handled while m_text is empty (and no write of it is
\* in progress) changes nothing: the window keeps its state (hidden stays
\* hidden), m_visible is not set, no render is started and nothing is
\* painted or posted.
C22_ShowWithoutTextIsNoOp ==
    [][ (ShowCommandStep /\ m_text = "" /\ ~TextMutexHeldByCaller)
          => /\ UNCHANGED << shown, m_visible, painted, rPc, rText, m_text >>
             /\ rPc' = "getmsg" ]_vars

\* The show command of the only call so far, updateOverlay(""), has been
\* handled; the window is hidden and nothing was ever painted.
C22_Witness ==
    /\ lastMsg = "WM_SHOW_OVERLAY"
    /\ writes = << "" >>
    /\ m_text = ""
    /\ rPc = "getmsg"
    /\ ~shown
    /\ ~m_visible
    /\ painted = "none"

\* C23: after updateOverlay("", x, y), once the call has returned and every
\* command it posted (and every command those posted) has been handled, the
\* paint routine has called hide for the empty text and the window is not
\* visible, whatever it showed before.
C23_EmptyUpdateHides ==
    (Quiescent /\ lastCall = [kind |-> "update", text |-> ""])
        => /\ ~shown
           /\ ~m_visible
           /\ hideWrites = Len(writes)

\* The renderer leaves the entry of Render.
RenderEntryStep == rPc = "render" /\ rPc' # "render"

\* C26: after a device loss a paint requested while the text is not empty and
\* resource creation can succeed goes on to draw the current text.
C26_PaintsAgainAfterLoss ==
    [][ (RenderEntryStep /\ deviceLost /\ canCreate /\ m_text # "")
          => rPc' = "render_act" /\ rText' = m_text ]_vars

\* C28: in every reachable state the overlay window carries the layered,
\* click-through, topmost, no-activate and tool-window styles, every
\* ShowWindow and SetWindowPos call made for it used a mode that does not
\* activate it, and it has never been activated.
C28_NeverTakesFocus ==
    /\ m_hwnd => {"WS_EX_LAYERED", "WS_EX_TRANSPARENT", "WS_EX_TOPMOST",
                  "WS_EX_NOACTIVATE", "WS_EX_TOOLWINDOW"} \subseteq exStyle
    /\ ~Activates(winOp)
    /\ ~focusTaken

\* The window has been shown for a text, placed by the paint routine, and
\* is visible with the text painted.
C28_Witness ==
    /\ shown
    /\ m_visible
    /\ painted = "a"
    /\ winOp = PositionFlags
    /\ lastMsg = "WM_SHOW_OVERLAY"
    /\ ~focusTaken

\* C31: every access to the presentation state is made with m_textMutex
\* held, so the renderer thread never reads m_text while the caller's thread
\* is inside its locked write.
C31_AccessUnderMutex ==
    [][ ShowCommandStep => ~TextMutexHeldByCaller ]_vars

\* C32: the brushes, the render target and the text format are used only by
\* the renderer thread: no operation called on another thread has touched
\* one of them.
C32_ResourcesOnRendererThread == callerTouched = {}
(* ------------------------------------------------------------------------ *)
(* Claims about the creation and destruction of the overlay                 *)
(* ------------------------------------------------------------------------ *)

\* OverlayWindow::Initialize returns to main.cpp and initialize() returns.
InitializeReturnStep ==
    /\ callerPc = "init_wait" \/ callerPc = "init_join"
    /\ callerPc' = "idle"

\* C24: initialize() of the renderer leaves its wait only after the renderer
\* thread has reported its outcome; it returns false exactly when one of the
\* initialization steps (COM, the factories, the window class, the window,
\* the device resources) failed, and then the thread has exited and been
\* joined and no window exists.
C24_InitializeReportsFailure ==
    [][ /\ (callerPc = "init_wait" /\ callerPc' # "init_wait")
              => m_initComplete
        /\ InitializeReturnStep
              => /\ (lastResult' = "overlay_failed") = (failedStep # "none")
                 /\ (lastResult' = "initialized") = (failedStep = "none")
                 /\ lastResult' = "overlay_failed"
                       => /\ ovlThread = "exited"
                          /\ ovlThread' = "none"
                          /\ ~m_hwnd'
                          /\ ~g_initialized' ]_vars

\* initialize() has returned false because the device resources could not
\* be created for the window.
C24_Witness ==
    /\ callerPc = "idle"
    /\ lastResult = "overlay_failed"
    /\ failedStep = "device"
    /\ ovlThread = "none"
    /\ ~m_hwnd

\* C25: destroy() on an overlay without a thread changes nothing; otherwise
\* it sets m_shouldStop and posts WM_QUIT, the window is destroyed and the
\* resources are released by the renderer thread as it leaves its loop, and
\* destroy() returns only after that thread has exited, with no window and
\* no resource left.
C25_DestroyJoinsAndReleases ==
    [][ /\ (callerPc = "shut_destroy" /\ callerPc' # "shut_destroy")
              => IF ovlThread = "none"
                    THEN UNCHANGED << ovlThread, ovlShouldStop, ovlQuit, m_hwnd,
                                      held, m_renderTarget >>
                    ELSE ovlShouldStop' /\ ovlQuit'
        /\ (m_hwnd /\ ~m_hwnd')
              => /\ ovlThread = "loop"
                 /\ ovlThread' = "exited"
                 /\ callerPc = "shut_join"
                 /\ held' = {}
                 /\ ~m_renderTarget'
        /\ (callerPc = "shut_join" /\ callerPc' = "idle")
              => /\ ovlThread = "none" \/ ovlThread = "exited"
                 /\ ovlThread' = "none"
                 /\ ~m_hwnd'
                 /\ ~m_renderTarget' ]_vars

\* shutdown() has returned after an initialize() that returned true: the
\* thread is gone, nothing is held.
C25_Witness ==
    /\ callerPc = "idle"
    /\ lastResult = "shutdown"
    /\ prevCall = "initialized"
    /\ ovlThread = "none"
    /\ held = {}
    /\ ~m_hwnd

\* C30: no updateOverlay or hideOverlay call made after initialize() returned
\* true and before shutdown() returns without writing its state and posting
\* its command.
C30_NoCallDropped == ~dropped

\* C27: while g_initialized is clear (before initialize() has succeeded and
\* after shutdown()), startMonitoring raises and starts no thread and installs
\* no hook, updateOverlay returns false and leaves the overlay as it was, and
\* getTextContext returns null; getTextContext also returns null when the
\* extracted context is invalid and an object otherwise.
C27_GatedByInitialization ==
    /\ [](~g_initialized => ~m_hook)
    /\ [][ /\ (StartMonitoring /\ ~g_initialized)
                 => /\ lastResult' = "error"
                    /\ UNCHANGED << hookPc, dbPc, m_hook, m_running, g_tsfn >>
           /\ ((\E text \in Texts : UpdateOverlayWrite(text)) /\ ~g_initialized)
                 => /\ ovlResult' = "false"
                    /\ UNCHANGED << m_text, msgQ, shown, m_visible, painted,
                                    jsPc >>
           /\ \A n \in LifeContextLengths :
                 GetTextContext(n)
                    => /\ (probe' = "object")
                            = (g_initialized /\ GetCurrentContext(uia, n).valid)
                       /\ (probe' = "null")
                            = (~g_initialized \/ ~GetCurrentContext(uia, n).valid)
         ]_vars

\* After shutdown() of an initialized addon all three calls have been made:
\* startMonitoring raised, updateOverlay returned false, and getTextContext
\* returned null although the focused element has a valid context.
C27_Witness ==
    /\ m_windowThreadId = 1
    /\ ~g_initialized
    /\ callerPc = "idle"
    /\ lastResult = "error"
    /\ prevCall = "shutdown"
    /\ ovlResult = "false"
    /\ probe = "null"
    /\ GetCurrentContext(uia, ctxLen).valid
    /\ ~m_hook
(* ------------------------------------------------------------------------ *)
(* Claims about the registration slot                                       *)
(* ------------------------------------------------------------------------ *)

\* C35: while an object is running, s_instance refers to it, and no key
\* event of a running object was delivered to another object or dropped,
\* whatever other objects were constructed or destroyed.
C35_SlotFollowsRunningInstance ==
    /\ \A i \in hooked : s_instance = i
    /\ ~misrouted
(* ------------------------------------------------------------------------ *)
(* Claims about the GhostTextService wrapper                                *)
(* ------------------------------------------------------------------------ *)

\* A call of the given method of the service.
SvcStep(op) == svcCalls' = svcCalls + 1 /\ svcOp' = op

\* C38: isMonitoring implies isInitialized and at most one listener is
\* installed; startMonitoring() on a service that is not initialized throws
\* without a native call; startMonitoring() on a monitoring service returns
\* true without a native call; a shutdown() that returned leaves both flags
\* false.
C38_WrapperFlags ==
    /\ [](svc_monitoring => svc_initialized)
    /\ [](listeners <= 1)
    /\ [][ /\ (SvcStep("startMonitoring") /\ ~svc_initialized)
                 => svcResult' = "throw" /\ svcNative' = << >>
           /\ (SvcStep("startMonitoring") /\ svc_monitoring)
                 => /\ svcResult' = "true"
                    /\ svcNative' = << >>
                    /\ listeners' = listeners
           /\ (SvcStep("shutdown") /\ svcResult' = "true")
                 => ~svc_initialized' /\ ~svc_monitoring' ]_vars

\* A monitoring service was shut down: both native calls were made and
\* both flags are false.
C38_Witness ==
    /\ svcOp = "shutdown"
    /\ svcResult = "true"
    /\ svcNative = << "stopMonitoring", "shutdown" >>
    /\ ~svc_initialized
    /\ ~svc_monitoring
(* ------------------------------------------------------------------------ *)
(* Claims about the AI council                                              *)
(* ------------------------------------------------------------------------ *)

\* A chat request is about to be sent to the given model.
UsesModel(model) ==
    \/ qPc \in {"p1_chat", "p3_chat"} /\ model = chairmanModel
    \/ qPc = "loop_chat" /\ model = memberModel

\* C39: at most one model is loaded; when a model is about to be used no
\* other model is loaded; and when a model is loaded the tracker names it.
C39_SingleModelLoaded ==
    /\ Cardinality(loadedModels) <= 1
    /\ \A model \in {chairmanModel, memberModel} :
          UsesModel(model) => loadedModels \subseteq {model}
    /\ loadedModels # {} => loadedModels = {currentlyLoadedModel}

\* Steps left to the tool loop: it goes down with every step inside the loop.
LoopVariant ==
    (maxIterations - iterations) * (MaxToolCalls + 2)
      + (IF qPc = "loop_chat" THEN MaxToolCalls + 1
         ELSE IF qPc = "loop_tool" THEN pendingTools
         ELSE 0)

\* C40: the tool loop ends: every step inside it lowers LoopVariant, which is
\* never negative; it makes at most maxIterations model calls; it returns the
\* content of the first response without tool calls; it throws the
\* exceeded error exactly when maxIterations responses all asked for tools;
\* and a failing tool adds an error result and leaves the loop running.
C40_ToolLoopTerminates ==
    /\ [](modelCalls <= maxIterations /\ LoopVariant >= 0)
    /\ [](loopResult = "content" => assistantMsgs = modelCalls - 1)
    /\ [](loopResult = "exceeded"
            => modelCalls = maxIterations /\ assistantMsgs = maxIterations)
    /\ [][ /\ (qPc \in LoopPcs /\ qPc' \in LoopPcs)
                 => LoopVariant' < LoopVariant
           /\ LoopTool(FALSE)
                 => /\ errorMsgs' = errorMsgs + 1
                    /\ loopResult' = "none"
                    /\ qPc' \in LoopPcs ]_vars

\* Every response asked for tools, one tool failed, and the loop threw the
\* exceeded error after maxIterations model calls.
C40_Witness ==
    /\ loopResult = "exceeded"
    /\ modelCalls = maxIterations
    /\ errorMsgs > 0
====
